---- MODULE Spec2Model ----
(***************************************************************************)
(* A model of the football-rag ETL pipeline (matches, competitions,        *)
(* lineups, 360 frames and events loaders writing to PostgreSQL) and of    *)
(* the read-only query sandbox of the serving layer.                       *)
(*                                                                         *)
(* Every loader is a run-to-completion program.  Its steps are pure        *)
(* operators on a machine state [db, pc, mem, stmts, exitCode]; one action *)
(* applies one step, and each step issues at most one INSERT statement, so *)
(* that a process can be terminated between any two database writes.       *)
(***************************************************************************)
EXTENDS Integers, Sequences, FiniteSets, TLC

VARIABLES
    loader,     \* which program this behaviour runs
    files,      \* the source files on disk (never written by a loader)
    db,         \* the PostgreSQL database: [tbl: table -> rows, seq: serial counters]
    pc,         \* position of the running process
    mem,        \* the process's local variables (lost when the process ends)
    stmts,      \* INSERT statements issued by the current process: <<[t, n, rows]>>
    exitCode,   \* exit code of the last process (NoExit while running)
    hist        \* how the earlier runs of this loader ended

vars == <<loader, files, db, pc, mem, stmts, exitCode, hist>>

(***************************************************************************)
(* Bounds of the model.  The batch thresholds of the code (100 files,      *)
(* 1000 rows, 500 events, ...) are scaled down; every loop is the code's.  *)
(***************************************************************************)
MaxFiles == 3            \* files in one directory
MaxRuns == 2             \* runs of one loader on the same files
MT_BATCH_SIZE == 2       \* load-matches.ts:665 BATCH_SIZE = 500
LINK_BATCH_SIZE == 2     \* load-matches.ts:725 LINK_BATCH_SIZE = 1000
LN_FILE_BATCH_SIZE == 2  \* load-lineups.ts:167 FILE_BATCH_SIZE = 100
LN_BATCH_SIZE == 2       \* load-lineups.ts:218 BATCH_SIZE = 1000
TS_FILE_BATCH_SIZE == 2  \* load-events.ts:1017 FILE_BATCH_SIZE = 50
FRAME_BATCH_SIZE == 2    \* load-events.ts:1018 FRAME_BATCH_SIZE = 100
EVENT_BATCH_SIZE == 2    \* load-events.ts:29 EVENT_BATCH_SIZE = 500
SUBTYPE_BATCH_SIZE == 2  \* load-events.ts:30 SUBTYPE_BATCH_SIZE = 1000
RELATIONSHIP_BATCH_SIZE == 2  \* load-events.ts:31 RELATIONSHIP_BATCH_SIZE = 2000
SUBTYPE_FLUSH_FILES == 2 \* load-events.ts:449 filesProcessed % 50

(***************************************************************************)
(* JavaScript values.                                                      *)
(***************************************************************************)
NULL == -1          \* null / undefined of a numeric value (ids are >= 0)
NaN == -1000000     \* parseInt of a text that starts with no digit
NoExit == -2        \* the process has not exited
NoTime == <<>>      \* a null "MM:SS" text; a time is <<minutes, seconds>>

Min(a, b) == IF a < b THEN a ELSE b

\* Array.prototype.slice(i, i + n), i counted from 0
Slice(s, i, n) == SubSeq(s, i + 1, Min(i + n, Len(s)))

RECURSIVE Flatten(_)
Flatten(ss) == IF ss = <<>> THEN <<>> ELSE Head(ss) \o Flatten(Tail(ss))

\* a JavaScript Map / Set in insertion order: <<[k, v]>>
MapHas(m, k) == \E i \in 1..Len(m) : m[i].k = k
MapGet(m, k) == IF MapHas(m, k)
                THEN m[CHOOSE i \in 1..Len(m) : m[i].k = k].v
                ELSE NULL
MapSet(m, k, v) ==
    IF MapHas(m, k)
    THEN [i \in 1..Len(m) |-> IF m[i].k = k THEN [k |-> k, v |-> v] ELSE m[i]]
    ELSE Append(m, [k |-> k, v |-> v])
MapValues(m) == [i \in 1..Len(m) |-> m[i].v]
SetAdd(s, x) == IF \E i \in 1..Len(s) : s[i] = x THEN s ELSE Append(s, x)

IsDigit(c) == c \in {"0", "1", "2", "3", "4", "5", "6", "7", "8", "9"}
DigitVal(c) ==
    CASE c = "0" -> 0 [] c = "1" -> 1 [] c = "2" -> 2 [] c = "3" -> 3
      [] c = "4" -> 4 [] c = "5" -> 5 [] c = "6" -> 6 [] c = "7" -> 7
      [] c = "8" -> 8 [] c = "9" -> 9

RECURSIVE ParseDigits(_, _, _)
ParseDigits(s, i, acc) ==
    IF i > Len(s) \/ ~IsDigit(s[i]) THEN acc
    ELSE ParseDigits(s, i + 1, acc * 10 + DigitVal(s[i]))

\* parseInt(text): an optional sign, then the longest prefix of digits
ParseInt(s) ==
    LET neg == Len(s) > 0 /\ s[1] = "-"
        start == IF Len(s) > 0 /\ s[1] \in {"-", "+"} THEN 2 ELSE 1
    IN  IF start > Len(s) \/ ~IsDigit(s[start]) THEN NaN
        ELSE IF neg THEN 0 - ParseDigits(s, start, 0)
        ELSE ParseDigits(s, start, 0)

\* x || null for a number: 0 and a missing value give null
OrNull(x) == IF x = NULL \/ x = 0 THEN NULL ELSE x

\* isNaN(matchId) || matchId <= 0
BadMatchId(n) == n = NaN \/ n <= 0

(***************************************************************************)
(* The database.  A table is the sequence of its rows in insertion order.  *)
(***************************************************************************)
\* the event subtype tables, in the order flushSubtypeBatches writes them
SubtypeOrder == <<"passes", "shots", "carries", "dribbles", "pressures", "duels", "blocks",
                  "interceptions", "clearances", "ball_receipts", "ball_recoveries",
                  "fifty_fifties", "fouls", "bad_behaviours", "goalkeeper_events">>
SubtypeTables == {SubtypeOrder[i] : i \in 1..Len(SubtypeOrder)}

Tables == {"countries", "competitions", "seasons", "teams", "matches",
           "players", "positions",
           "player_lineups", "player_positions", "player_cards",
           "three_sixty_frames", "three_sixty_players",
           "event_types", "events", "event_relationships",
           "competition_stages", "managers", "stadiums", "referees", "match_managers"}
          \cup SubtypeTables

\* tables whose primary key is a serial id
SerialTables == {"countries", "player_lineups", "player_positions", "player_cards",
                 "three_sixty_frames", "three_sixty_players"}

EmptyDB == [tbl |-> [t \in Tables |-> <<>>], seq |-> [t \in SerialTables |-> 1]]

Rows(d, t) == {d.tbl[t][i] : i \in 1..Len(d.tbl[t])}
Count(d, t) == Len(d.tbl[t])

\* the primary-key and UNIQUE constraints of the migration: does new row r
\* conflict with stored row e of table t?
Conflict(t, r, e) ==
    CASE t = "countries" ->
            r.name = e.name \/ (r.statsbombId # NULL /\ r.statsbombId = e.statsbombId)
      [] t = "competitions" -> r.competitionId = e.competitionId
      [] t = "seasons" -> r.competitionId = e.competitionId /\ r.seasonId = e.seasonId
      [] t = "teams" -> r.teamId = e.teamId
      [] t = "matches" -> r.matchId = e.matchId
      [] t = "players" -> r.playerId = e.playerId
      [] t = "positions" -> r.id = e.id
      \* player_lineups, player_positions, player_cards: the serial id is the
      \* only key, and it is fresh for every row
      [] t \in {"player_lineups", "player_positions", "player_cards"} -> FALSE
      [] t = "three_sixty_frames" -> r.eventUuid = e.eventUuid
      [] t = "three_sixty_players" -> FALSE
      [] t = "event_types" -> r.id = e.id
      [] t = "competition_stages" -> r.id = e.id \/ r.name = e.name
      [] t = "managers" -> r.managerId = e.managerId
      [] t = "stadiums" -> r.stadiumId = e.stadiumId
      [] t = "referees" -> r.refereeId = e.refereeId
      [] t = "match_managers" ->
            r.matchId = e.matchId /\ r.managerId = e.managerId /\ r.teamId = e.teamId
      [] t = "events" -> r.id = e.id
      [] t = "event_relationships" ->
            r.eventId = e.eventId /\ r.relatedEventId = e.relatedEventId
      [] t \in SubtypeTables -> r.eventId = e.eventId

\* NOT NULL columns a loader can leave unset
NotNullOk(t, r) ==
    CASE t = "player_lineups" -> r.countryId # NULL
      [] t = "shots" -> r.outcomeId # NULL
      [] t = "three_sixty_players" -> r.locationX # NULL /\ r.locationY # NULL
      [] OTHER -> TRUE

\* a database that enforces no reference
FKOff(d, t, r) == TRUE

\* the FOREIGN KEY constraints of the migration
FKOk(d, t, r) ==
    LET has(tt, col, v) == \E e \in Rows(d, tt) : e[col] = v
    IN  CASE t = "competitions" -> r.countryId = NULL \/ has("countries", "id", r.countryId)
          [] t = "seasons" -> has("competitions", "competitionId", r.competitionId)
          [] t = "teams" -> r.countryId = NULL \/ has("countries", "id", r.countryId)
          [] t = "matches" ->
                /\ has("competitions", "competitionId", r.competitionId)
                /\ has("teams", "teamId", r.homeTeamId)
                /\ has("teams", "teamId", r.awayTeamId)
                /\ r.competitionStageId = NULL
                   \/ has("competition_stages", "id", r.competitionStageId)
                /\ r.stadiumId = NULL \/ has("stadiums", "stadiumId", r.stadiumId)
                /\ r.refereeId = NULL \/ has("referees", "refereeId", r.refereeId)
          [] t \in {"managers", "stadiums", "referees"} ->
                r.countryId = NULL \/ has("countries", "id", r.countryId)
          [] t = "match_managers" ->
                /\ has("matches", "matchId", r.matchId)
                /\ has("managers", "managerId", r.managerId)
                /\ has("teams", "teamId", r.teamId)
          [] t = "player_lineups" ->
                /\ has("matches", "matchId", r.matchId)
                /\ has("teams", "teamId", r.teamId)
                /\ has("players", "playerId", r.playerId)
                /\ has("countries", "id", r.countryId)
          [] t = "player_positions" ->
                /\ has("matches", "matchId", r.matchId)
                /\ has("players", "playerId", r.playerId)
                /\ has("positions", "id", r.positionId)
          [] t = "player_cards" ->
                /\ has("matches", "matchId", r.matchId)
                /\ has("players", "playerId", r.playerId)
          [] t = "three_sixty_frames" -> has("matches", "matchId", r.matchId)
          [] t = "three_sixty_players" -> has("three_sixty_frames", "id", r.frameId)
          [] t = "events" ->
                /\ has("matches", "matchId", r.matchId)
                /\ has("event_types", "id", r.typeId)
                /\ has("teams", "teamId", r.possessionTeamId)
                /\ has("teams", "teamId", r.teamId)
                /\ r.playerId = NULL \/ has("players", "playerId", r.playerId)
                /\ r.positionId = NULL \/ has("positions", "id", r.positionId)
          [] t = "event_relationships" ->
                /\ has("events", "id", r.eventId)
                /\ has("events", "id", r.relatedEventId)
          [] t = "passes" ->
                /\ has("events", "id", r.eventId)
                /\ r.recipientId = NULL \/ has("players", "playerId", r.recipientId)
                /\ r.assistedShotId = "" \/ has("events", "id", r.assistedShotId)
          [] t = "shots" ->
                /\ has("events", "id", r.eventId)
                /\ r.keyPassId = "" \/ has("events", "id", r.keyPassId)
          [] t \in SubtypeTables \ {"passes", "shots"} -> has("events", "id", r.eventId)
          [] OTHER -> TRUE

\* INSERT ... ON CONFLICT DO UPDATE: a stored row that conflicts takes the
\* columns of the new row
RECURSIVE DoUpsert(_, _, _, _, _)
DoUpsert(t, tbl, seq, rows, ret) ==
    IF rows = <<>> THEN [tbl |-> tbl, seq |-> seq, ret |-> ret]
    ELSE LET r == IF t \in SerialTables THEN [id |-> seq] @@ Head(rows) ELSE Head(rows)
             seq2 == IF t \in SerialTables THEN seq + 1 ELSE seq
             hit == {i \in 1..Len(tbl) : Conflict(t, r, tbl[i])}
         IN  IF hit # {}
             THEN DoUpsert(t, [i \in 1..Len(tbl) |-> IF i \in hit THEN r ELSE tbl[i]],
                           seq2, Tail(rows), ret)
             ELSE DoUpsert(t, Append(tbl, r), seq2, Tail(rows), Append(ret, r))

\* INSERT ... ON CONFLICT DO NOTHING, row by row: a serial id is drawn for
\* every row, a row that conflicts with a stored row (or with an earlier row
\* of the same statement) is dropped, the others are appended.
RECURSIVE DoInsert(_, _, _, _, _)
DoInsert(t, tbl, seq, rows, ret) ==
    IF rows = <<>> THEN [tbl |-> tbl, seq |-> seq, ret |-> ret]
    ELSE LET r == IF t \in SerialTables THEN [id |-> seq] @@ Head(rows) ELSE Head(rows)
             seq2 == IF t \in SerialTables THEN seq + 1 ELSE seq
         IN  IF \E i \in 1..Len(tbl) : Conflict(t, r, tbl[i])
             THEN DoInsert(t, tbl, seq2, Tail(rows), ret)
             ELSE DoInsert(t, Append(tbl, r), seq2, Tail(rows), Append(ret, r))

\* db.insert(t).values(rows).onConflictDoNothing(): [ok, db, ret].  The
\* statement fails as a whole (ok = FALSE, nothing written) on an empty
\* values list, a NOT NULL violation or a FOREIGN KEY violation.
InsertStmt(d, t, rows) ==
    LET res == DoInsert(t, d.tbl[t], IF t \in SerialTables THEN d.seq[t] ELSE 0, rows, <<>>)
        ok == /\ rows # <<>>
              /\ \A i \in 1..Len(rows) : NotNullOk(t, rows[i])
              /\ \A i \in 1..Len(res.ret) : FKOk(d, t, res.ret[i])
    IN  IF ~ok THEN [ok |-> FALSE, db |-> d, ret |-> <<>>]
        ELSE [ok |-> TRUE,
              db |-> [tbl |-> [d.tbl EXCEPT ![t] = res.tbl],
                      seq |-> IF t \in SerialTables
                              THEN [d.seq EXCEPT ![t] = res.seq] ELSE d.seq],
              ret |-> res.ret]

\* a map name -> id that holds ids the countries table has not given out
CountryMapAhead(d) == [i \in 1..Len(d.tbl["countries"]) |->
                         [k |-> d.tbl["countries"][i].name,
                          v |-> d.tbl["countries"][i].id + Len(d.tbl["countries"])]]

\* select id, name from countries -> Map name -> id
CountryMap(d) == [i \in 1..Len(d.tbl["countries"]) |->
                    [k |-> d.tbl["countries"][i].name, v |-> d.tbl["countries"][i].id]]

(***************************************************************************)
(* Machine states and the outcome of a step.                               *)
(***************************************************************************)
Cur == [db |-> db, pc |-> pc, mem |-> mem, stmts |-> stmts, exitCode |-> exitCode]

Becomes(s) ==
    /\ db' = s.db
    /\ pc' = s.pc
    /\ mem' = s.mem
    /\ stmts' = s.stmts
    /\ exitCode' = s.exitCode
    /\ UNCHANGED <<loader, files, hist>>

NoMem == [none |-> TRUE]

\* a fresh process on database d
Fresh(d) == [db |-> d, pc |-> "start", mem |-> NoMem, stmts |-> <<>>, exitCode |-> NoExit]

\* an uncaught error: .catch(() => process.exit(1))
Failed(s) == [s EXCEPT !.pc = "failed", !.exitCode = 1]
\* normal completion: process.exit(0)
Done(s) == [s EXCEPT !.pc = "done", !.exitCode = 0]

\* state s after its process issued an INSERT of rows into t
Issue(s, t, rows) == [s EXCEPT !.stmts = Append(@, [t |-> t, n |-> Len(rows), rows |-> rows])]

Running == pc \notin {"start", "done", "failed", "killed"}

(***************************************************************************)
(* The operator's part: a process can be terminated at any point, and a    *)
(* loader that has ended can be run again on the same files.               *)
(***************************************************************************)
Terminate ==
    /\ Running
    /\ pc' = "killed"
    /\ mem' = NoMem
    /\ exitCode' = 137
    /\ UNCHANGED <<loader, files, db, stmts, hist>>

Rerun ==
    /\ pc \in {"done", "failed", "killed"}
    /\ Len(hist) + 1 < MaxRuns
    /\ hist' = Append(hist, pc)
    /\ pc' = "start"
    /\ mem' = NoMem
    /\ stmts' = <<>>
    /\ exitCode' = NoExit
    /\ UNCHANGED <<loader, files, db>>

\* the directory listings: up to MaxFiles files of the universe, in its order
RECURSIVE Pick(_, _)
Pick(u, keep) ==
    IF u = <<>> THEN <<>>
    ELSE (IF Len(u) \in keep THEN <<Head(u)>> ELSE <<>>) \o Pick(Tail(u), keep)

Listings(u) ==
    {Pick(u, {Len(u) + 1 - k : k \in K}) :
        K \in {S \in SUBSET (1..Len(u)) : S # {} /\ Cardinality(S) <= MaxFiles}}


(***************************************************************************)
(* MATCHES LOADER (load-matches.ts).  A matches file is                    *)
(* matches/{comp}/{name}.json: [comp, name, corrupt, matches].  A match is *)
(* a record of the MatchJSON fields; an absent stadium or referee is       *)
(* Absent, absent managers are <<>>.                                       *)
(***************************************************************************)
Absent == [absent |-> TRUE]

MtSpain == [id |-> 214, name |-> "Spain"]
MtItaly == [id |-> 112, name |-> "Italy"]
MtEurope == [id |-> 300, name |-> "Europe"]
MtComp == [competition_id |-> 11, country_name |-> "Spain", competition_name |-> "La Liga"]
MtCup == [competition_id |-> 55, country_name |-> "Europe", competition_name |-> "Euro"]
MtSeason == [season_id |-> 90, season_name |-> "2020/2021"]
MtManager == [id |-> 500, name |-> "M", country |-> MtItaly]
MtStadium == [id |-> 600, name |-> "S", country |-> MtSpain]
MtReferee == [id |-> 700, name |-> "R", country |-> MtItaly]

MtHome(id, country, managers) ==
    [home_team_id |-> id, home_team_name |-> "H", home_team_gender |-> "male",
     country |-> country, managers |-> managers]
MtAway(id, country, managers) ==
    [away_team_id |-> id, away_team_name |-> "W", away_team_gender |-> "male",
     country |-> country, managers |-> managers]

MtMatch7 ==
    [match_id |-> 7, match_date |-> "2020-09-12", competition |-> MtComp, season |-> MtSeason,
     home_team |-> MtHome(10, MtSpain, <<MtManager>>), away_team |-> MtAway(20, MtSpain, <<>>),
     home_score |-> 2, away_score |-> 0, match_week |-> 1, competition_stage |-> 1,
     stadium |-> MtStadium, referee |-> MtReferee]
MtMatch8 ==
    [match_id |-> 8, match_date |-> "2020-09-19", competition |-> MtComp, season |-> MtSeason,
     home_team |-> MtHome(20, MtSpain, <<>>), away_team |-> MtAway(10, MtSpain, <<MtManager>>),
     home_score |-> 1, away_score |-> 1, match_week |-> 2, competition_stage |-> NULL,
     stadium |-> Absent, referee |-> Absent]
MtMatch9 ==
    [match_id |-> 9, match_date |-> "2021-09-11", competition |-> MtComp,
     season |-> [season_id |-> 91, season_name |-> "2021/2022"],
     home_team |-> MtHome(10, MtSpain, <<MtManager>>), away_team |-> MtAway(20, MtSpain, <<>>),
     home_score |-> 0, away_score |-> 3, match_week |-> 1, competition_stage |-> 1,
     stadium |-> MtStadium, referee |-> MtReferee]
\* a cup match of two national teams without managers, stadium or referee
MtMatch3 ==
    [match_id |-> 3, match_date |-> "2021-06-11", competition |-> MtCup,
     season |-> [season_id |-> 43, season_name |-> "2020"],
     home_team |-> MtHome(30, MtItaly, <<>>), away_team |-> MtAway(40, MtEurope, <<>>),
     home_score |-> 3, away_score |-> 0, match_week |-> NULL, competition_stage |-> 10,
     stadium |-> Absent, referee |-> Absent]

MtFileUniverse == <<
    [comp |-> <<"1", "1">>, name |-> <<"9", "0">>, corrupt |-> FALSE, matches |-> <<MtMatch7, MtMatch8>>],
    [comp |-> <<"1", "1">>, name |-> <<"9", "1">>, corrupt |-> FALSE, matches |-> <<MtMatch9>>],
    [comp |-> <<"5", "5">>, name |-> <<"4", "3">>, corrupt |-> FALSE, matches |-> <<MtMatch3>>],
    [comp |-> <<"5", "5">>, name |-> <<"7">>, corrupt |-> TRUE, matches |-> <<>>] >>

\* the tables the seed scripts fill before any loader runs
SeedDB ==
    [EmptyDB EXCEPT
        !.tbl["positions"] = <<[id |-> 1], [id |-> 2]>>,
        !.tbl["event_types"] = <<[id |-> 16], [id |-> 17], [id |-> 22], [id |-> 30],
                                 [id |-> 35], [id |-> 42], [id |-> 43]>>]

\* loadAllMatches: the matches of all files, [st |-> "throw"] when a file
\* does not parse; src (the file a match was read from) is bookkeeping
RECURSIVE loadAllMatches(_, _)
loadAllMatches(fs, allMatches) ==
    IF fs = <<>> THEN [st |-> "ok", allMatches |-> allMatches]
    ELSE IF Head(fs).corrupt THEN [st |-> "throw", allMatches |-> <<>>]
    ELSE loadAllMatches(Tail(fs),
            allMatches \o [k \in 1..Len(Head(fs).matches) |->
                              [match |-> Head(fs).matches[k], src |-> Head(fs).name]])

getCountryType(name) ==
    IF name \in {"Europe", "South America", "North and Central America", "Africa"} THEN "region"
    ELSE IF name = "International" THEN "international"
    ELSE "country"

\* the countries a match names, in the order STEP 2 puts them into countriesMap
MtCountriesOf(match) ==
    <<match.home_team.country, match.away_team.country>>
    \o [k \in 1..Len(match.home_team.managers) |-> match.home_team.managers[k].country]
    \o [k \in 1..Len(match.away_team.managers) |-> match.away_team.managers[k].country]
    \o (IF match.stadium # Absent THEN <<match.stadium.country>> ELSE <<>>)
    \o (IF match.referee # Absent THEN <<match.referee.country>> ELSE <<>>)

\* a Map filled by map.set(key(x), row(x)) for every x of xs (the last wins),
\* or with has(key) checked first (the first wins)
RECURSIVE MapFill(_, _, _)
MapFill(m, ks, vs) ==
    IF ks = <<>> THEN m ELSE MapFill(MapSet(m, Head(ks), Head(vs)), Tail(ks), Tail(vs))

RECURSIVE MapFillFirst(_, _, _)
MapFillFirst(m, ks, vs) ==
    IF ks = <<>> THEN m
    ELSE MapFillFirst(IF MapHas(m, Head(ks)) THEN m ELSE MapSet(m, Head(ks), Head(vs)),
                      Tail(ks), Tail(vs))

MtCountryRows(allMatches) ==
    LET cs == Flatten([k \in 1..Len(allMatches) |-> MtCountriesOf(allMatches[k].match)])
    IN  MapValues(MapFill(<<>>, [k \in 1..Len(cs) |-> cs[k].id],
                          [k \in 1..Len(cs) |->
                              [statsbombId |-> cs[k].id, name |-> cs[k].name,
                               type |-> getCountryType(cs[k].name)]]))

\* STEP 3: one competition per competition_id, of the first match whose home
\* team's country is stored; raw_json is put together from the row
MtCompetitionRows(allMatches, countryNameToDbId) ==
    LET ms == SelectSeq(allMatches,
                  LAMBDA x : MapHas(countryNameToDbId, x.match.home_team.country.name))
        row(x) ==
            LET c == [competitionId |-> x.match.competition.competition_id,
                      competitionName |-> x.match.competition.competition_name,
                      countryId |-> MapGet(countryNameToDbId, x.match.home_team.country.name),
                      competitionGender |-> IF x.match.home_team.home_team_gender = "" THEN "male"
                                            ELSE x.match.home_team.home_team_gender,
                      competitionYouth |-> FALSE,
                      competitionInternational |->
                          x.match.competition.country_name = "International"]
            IN  c @@ [rawJson |-> [competition_id |-> c.competitionId,
                                   competition_name |-> c.competitionName,
                                   competition_gender |-> c.competitionGender,
                                   competition_youth |-> c.competitionYouth,
                                   competition_international |-> c.competitionInternational]]
    IN  MapValues(MapFillFirst(<<>>,
            [k \in 1..Len(ms) |-> ms[k].match.competition.competition_id],
            [k \in 1..Len(ms) |-> row(ms[k])]))

\* STEP 4: one season per (competition_id, season_id), of the first match
MtSeasonRows(allMatches) ==
    MapValues(MapFillFirst(<<>>,
        [k \in 1..Len(allMatches) |->
            <<allMatches[k].match.competition.competition_id, allMatches[k].match.season.season_id>>],
        [k \in 1..Len(allMatches) |->
            [seasonId |-> allMatches[k].match.season.season_id,
             competitionId |-> allMatches[k].match.competition.competition_id,
             seasonName |-> allMatches[k].match.season.season_name,
             rawJson |-> [season_id |-> allMatches[k].match.season.season_id,
                          competition_id |-> allMatches[k].match.competition.competition_id,
                          season_name |-> allMatches[k].match.season.season_name]]]))

\* STEP 5: the competition stages
stagesSeed == <<[id |-> 1, name |-> "Regular Season"], [id |-> 10, name |-> "Group Stage"]>>

\* STEP 6: one team per team id, of its first occurrence
MtTeamRows(allMatches, countryNameToDbId) ==
    LET ts == Flatten([k \in 1..Len(allMatches) |->
                 <<[teamId |-> allMatches[k].match.home_team.home_team_id,
                    teamName |-> allMatches[k].match.home_team.home_team_name,
                    teamGender |-> allMatches[k].match.home_team.home_team_gender,
                    countryId |-> MapGet(countryNameToDbId, allMatches[k].match.home_team.country.name)],
                   [teamId |-> allMatches[k].match.away_team.away_team_id,
                    teamName |-> allMatches[k].match.away_team.away_team_name,
                    teamGender |-> allMatches[k].match.away_team.away_team_gender,
                    countryId |-> MapGet(countryNameToDbId, allMatches[k].match.away_team.country.name)]>>])
    IN  MapValues(MapFillFirst(<<>>, [k \in 1..Len(ts) |-> ts[k].teamId], ts))

\* STEP 7: one manager per manager id, of its first occurrence
MtManagersOf(match) == match.home_team.managers \o match.away_team.managers

MtManagerRows(allMatches, countryNameToDbId) ==
    LET ms == Flatten([k \in 1..Len(allMatches) |-> MtManagersOf(allMatches[k].match)])
    IN  MapValues(MapFillFirst(<<>>, [k \in 1..Len(ms) |-> ms[k].id],
            [k \in 1..Len(ms) |->
                [managerId |-> ms[k].id, managerName |-> ms[k].name,
                 countryId |-> MapGet(countryNameToDbId, ms[k].country.name)]]))

\* STEPS 8 and 9: one stadium (referee) per id, of its last occurrence
MtStadiumRows(allMatches, countryNameToDbId) ==
    LET ms == SelectSeq(allMatches, LAMBDA x : x.match.stadium # Absent)
    IN  MapValues(MapFill(<<>>, [k \in 1..Len(ms) |-> ms[k].match.stadium.id],
            [k \in 1..Len(ms) |->
                [stadiumId |-> ms[k].match.stadium.id,
                 stadiumName |-> ms[k].match.stadium.name,
                 countryId |-> MapGet(countryNameToDbId, ms[k].match.stadium.country.name)]]))

MtRefereeRows(allMatches, countryNameToDbId) ==
    LET ms == SelectSeq(allMatches, LAMBDA x : x.match.referee # Absent)
    IN  MapValues(MapFill(<<>>, [k \in 1..Len(ms) |-> ms[k].match.referee.id],
            [k \in 1..Len(ms) |->
                [refereeId |-> ms[k].match.referee.id,
                 refereeName |-> ms[k].match.referee.name,
                 countryId |-> MapGet(countryNameToDbId, ms[k].match.referee.country.name)]]))

\* obj?.id || null of a stadium or referee
IdOrNull(obj) == IF obj = Absent THEN NULL ELSE OrNull(obj.id)

\* a match id read from the file name, as the other loaders read theirs
MtMatchIdFromFile(match, src) == ParseInt(src)

\* matchId: match.match_id
MtMatchId(match, src) == match.match_id

\* STEP 10: matchRecords; the match id is the match_id of the payload
MtMatchRow(match, src) ==
    [matchId |-> MtMatchId(match, src),
     competitionId |-> match.competition.competition_id,
     seasonId |-> match.season.season_id,
     matchDate |-> match.match_date,
     homeTeamId |-> match.home_team.home_team_id,
     awayTeamId |-> match.away_team.away_team_id,
     homeScore |-> match.home_score,
     awayScore |-> match.away_score,
     matchWeek |-> OrNull(match.match_week),
     competitionStageId |-> OrNull(match.competition_stage),
     stadiumId |-> IdOrNull(match.stadium),
     refereeId |-> IdOrNull(match.referee),
     rawJson |-> match,
     src |-> src]

MtMatchRecords(allMatches) ==
    [k \in 1..Len(allMatches) |-> MtMatchRow(allMatches[k].match, allMatches[k].src)]

\* STEP 11: the manager-match links
MtLinksOf(match) ==
    [k \in 1..Len(match.home_team.managers) |->
        [matchId |-> match.match_id, managerId |-> match.home_team.managers[k].id,
         teamId |-> match.home_team.home_team_id, isHomeTeam |-> TRUE]]
    \o [k \in 1..Len(match.away_team.managers) |->
        [matchId |-> match.match_id, managerId |-> match.away_team.managers[k].id,
         teamId |-> match.away_team.away_team_id, isHomeTeam |-> FALSE]]

MtManagerLinks(allMatches) ==
    Flatten([k \in 1..Len(allMatches) |-> MtLinksOf(allMatches[k].match)])

\* STEP 1: read all files; a file that does not parse ends the run
MtStart(s, fs) ==
    LET l == loadAllMatches(fs, <<>>)
    IN  IF l.st = "throw" THEN Failed(s)
        ELSE [s EXCEPT !.pc = "mt_countries",
                       !.mem = [allMatches |-> l.allMatches, countryNameToDbId |-> <<>>, i |-> 0]]

\* one INSERT of all of rows, then on to pc next
MtInsertAll(s, t, rows, next) ==
    LET res == InsertStmt(s.db, t, rows)
        s1 == Issue(s, t, rows)
    IN  IF ~res.ok THEN Failed(s1) ELSE [s1 EXCEPT !.db = res.db, !.pc = next]

\* STEP 2: the countries, then the map country name -> id read back
MtCountries(s, fs) ==
    LET s1 == MtInsertAll(s, "countries", MtCountryRows(s.mem.allMatches), "mt_competitions")
    IN  IF s1.pc = "failed" THEN s1
        ELSE [s1 EXCEPT !.mem.countryNameToDbId = CountryMap(s1.db)]

MtCompetitions(s, fs) ==
    MtInsertAll(s, "competitions",
                MtCompetitionRows(s.mem.allMatches, s.mem.countryNameToDbId), "mt_seasons")
MtSeasons(s, fs) == MtInsertAll(s, "seasons", MtSeasonRows(s.mem.allMatches), "mt_stages")
MtStages(s, fs) == MtInsertAll(s, "competition_stages", stagesSeed, "mt_teams")
MtTeams(s, fs) ==
    MtInsertAll(s, "teams", MtTeamRows(s.mem.allMatches, s.mem.countryNameToDbId), "mt_managers")
MtManagers(s, fs) ==
    MtInsertAll(s, "managers", MtManagerRows(s.mem.allMatches, s.mem.countryNameToDbId),
                "mt_stadiums")
MtStadiums(s, fs) ==
    MtInsertAll(s, "stadiums", MtStadiumRows(s.mem.allMatches, s.mem.countryNameToDbId),
                "mt_referees")
MtReferees(s, fs) ==
    LET s1 == MtInsertAll(s, "referees",
                          MtRefereeRows(s.mem.allMatches, s.mem.countryNameToDbId), "mt_matches")
    IN  IF s1.pc = "failed" THEN s1
        ELSE [s1 EXCEPT !.mem.i = 0,
                        !.pc = IF Len(s.mem.allMatches) > 0 THEN "mt_matches"
                               ELSE IF Len(MtManagerLinks(s.mem.allMatches)) > 0 THEN "mt_links"
                               ELSE "mt_verify"]

\* STEP 10: one INSERT of a slice of matchRecords
MtMatches(s, fs) ==
    LET m == s.mem
        rows == Slice(MtMatchRecords(m.allMatches), m.i, MT_BATCH_SIZE)
        res == InsertStmt(s.db, "matches", rows)
        s1 == Issue(s, "matches", rows)
        more == m.i + MT_BATCH_SIZE < Len(m.allMatches)
    IN  IF ~res.ok THEN Failed(s1)
        ELSE [s1 EXCEPT !.db = res.db,
                        !.mem.i = IF more THEN m.i + MT_BATCH_SIZE ELSE 0,
                        !.pc = IF more THEN "mt_matches"
                               ELSE IF Len(MtManagerLinks(m.allMatches)) > 0 THEN "mt_links"
                               ELSE "mt_verify"]

\* STEP 11: one INSERT of a slice of managerLinks
MtLinks(s, fs) ==
    LET m == s.mem
        links == MtManagerLinks(m.allMatches)
        rows == Slice(links, m.i, LINK_BATCH_SIZE)
        res == InsertStmt(s.db, "match_managers", rows)
        s1 == Issue(s, "match_managers", rows)
    IN  IF ~res.ok THEN Failed(s1)
        ELSE [s1 EXCEPT !.db = res.db,
                        !.mem.i = m.i + LINK_BATCH_SIZE,
                        !.pc = IF m.i + LINK_BATCH_SIZE < Len(links) THEN "mt_links"
                               ELSE "mt_verify"]

\* STEP 12: count the rows, report and exit 0
MtVerify(s, fs) == Done(s)

MtStep(s, fs) ==
    CASE s.pc = "start" -> MtStart(s, fs)
      [] s.pc = "mt_countries" -> MtCountries(s, fs)
      [] s.pc = "mt_competitions" -> MtCompetitions(s, fs)
      [] s.pc = "mt_seasons" -> MtSeasons(s, fs)
      [] s.pc = "mt_stages" -> MtStages(s, fs)
      [] s.pc = "mt_teams" -> MtTeams(s, fs)
      [] s.pc = "mt_managers" -> MtManagers(s, fs)
      [] s.pc = "mt_stadiums" -> MtStadiums(s, fs)
      [] s.pc = "mt_referees" -> MtReferees(s, fs)
      [] s.pc = "mt_matches" -> MtMatches(s, fs)
      [] s.pc = "mt_links" -> MtLinks(s, fs)
      [] s.pc = "mt_verify" -> MtVerify(s, fs)

RECURSIVE MtRun(_, _)
MtRun(s, fs) ==
    IF s.pc \in {"done", "failed"} THEN s
    ELSE CHOOSE r \in {MtRun(next, fs) : next \in {MtStep(s, fs)}} : TRUE

MtStartA == loader = "matches" /\ pc = "start" /\ Becomes(MtStart(Cur, files))
MtCountriesA == loader = "matches" /\ pc = "mt_countries" /\ Becomes(MtCountries(Cur, files))
MtCompetitionsA == loader = "matches" /\ pc = "mt_competitions" /\ Becomes(MtCompetitions(Cur, files))
MtSeasonsA == loader = "matches" /\ pc = "mt_seasons" /\ Becomes(MtSeasons(Cur, files))
MtStagesA == loader = "matches" /\ pc = "mt_stages" /\ Becomes(MtStages(Cur, files))
MtTeamsA == loader = "matches" /\ pc = "mt_teams" /\ Becomes(MtTeams(Cur, files))
MtManagersA == loader = "matches" /\ pc = "mt_managers" /\ Becomes(MtManagers(Cur, files))
MtStadiumsA == loader = "matches" /\ pc = "mt_stadiums" /\ Becomes(MtStadiums(Cur, files))
MtRefereesA == loader = "matches" /\ pc = "mt_referees" /\ Becomes(MtReferees(Cur, files))
MtMatchesA == loader = "matches" /\ pc = "mt_matches" /\ Becomes(MtMatches(Cur, files))
MtLinksA == loader = "matches" /\ pc = "mt_links" /\ Becomes(MtLinks(Cur, files))
MtVerifyA == loader = "matches" /\ pc = "mt_verify" /\ Becomes(MtVerify(Cur, files))

InitMatches ==
    /\ loader = "matches"
    /\ files \in Listings(MtFileUniverse)
    /\ db = SeedDB
    /\ pc = "start"
    /\ mem = NoMem
    /\ stmts = <<>>
    /\ exitCode = NoExit
    /\ hist = <<>>

NextMatches ==
    \/ MtStartA
    \/ MtCountriesA
    \/ MtCompetitionsA
    \/ MtSeasonsA
    \/ MtStagesA
    \/ MtTeamsA
    \/ MtManagersA
    \/ MtStadiumsA
    \/ MtRefereesA
    \/ MtMatchesA
    \/ MtLinksA
    \/ MtVerifyA
    \/ Terminate
    \/ Rerun

SpecMatches == InitMatches /\ [][NextMatches]_vars

(***************************************************************************)
(* COMPETITIONS LOADER (loadCompetitions).  Its input is the one file      *)
(* competitions.json: [corrupt, items], an item being a record of the      *)
(* CompetitionSeasonJSON fields.                                           *)
(***************************************************************************)
CpItem(c, cname, country, intl, season, sname) ==
    [competition_id |-> c, season_id |-> season, competition_name |-> cname,
     country_name |-> country, competition_gender |-> "male", competition_youth |-> FALSE,
     competition_international |-> intl, season_name |-> sname]

CpItemUniverse == <<
    CpItem(11, "La Liga", "Spain", FALSE, 90, "2020/2021"),
    CpItem(11, "La Liga", "Spain", FALSE, 91, "2021/2022"),
    CpItem(55, "Euro", "Europe", TRUE, 43, "2020"),
    CpItem(72, "World Cup", "International", TRUE, 30, "2019"),
    CpItem(16, "Champions League", "Europe", FALSE, 4, "2018/2019") >>

\* the database the matches loader leaves behind
CpInitDB == MtRun(Fresh(SeedDB), <<MtFileUniverse[1], MtFileUniverse[2]>>).db

\* Array.from(new Map(rawJson.map((item) => [item.competition_id, item])).values())
CpUniqueCompetitions(rawJson) ==
    MapValues(MapFill(<<>>, [k \in 1..Len(rawJson) |-> rawJson[k].competition_id], rawJson))

\* the countries of competitions that the countries table does not hold
CpMissingCountries(uniqueCompetitions, countryIdByName) ==
    LET miss == SelectSeq(uniqueCompetitions, LAMBDA c : ~MapHas(countryIdByName, c.country_name))
    IN  [k \in 1..Len(miss) |->
            [statsbombId |-> NULL, name |-> miss[k].country_name,
             type |-> getCountryType(miss[k].country_name)]]

\* updatedCountryMap.forEach((c) => countryIdByName.set(c.name, c.id))
CpMerge(countryIdByName, d) ==
    LET cm == CountryMap(d)
    IN  MapFill(countryIdByName, [k \in 1..Len(cm) |-> cm[k].k], [k \in 1..Len(cm) |-> cm[k].v])

CpCompetitionRow(comp, countryIdByName) ==
    [competitionId |-> comp.competition_id,
     competitionName |-> comp.competition_name,
     countryId |-> MapGet(countryIdByName, comp.country_name),
     competitionGender |-> comp.competition_gender,
     competitionYouth |-> comp.competition_youth,
     competitionInternational |-> comp.competition_international,
     rawJson |-> comp]

CpSeasonRow(item) ==
    [seasonId |-> item.season_id,
     competitionId |-> item.competition_id,
     seasonName |-> item.season_name,
     rawJson |-> item]

\* where the loader goes after the step at pc with index i done
CpNext(s) ==
    LET m == s.mem
    IN  CASE s.pc = "cp_country" /\ m.i < Len(m.missingCountries) -> s
          [] s.pc = "cp_country" ->
                [s EXCEPT !.mem.i = 0,
                          !.pc = IF Len(m.uniqueCompetitions) > 0 THEN "cp_comp"
                                 ELSE IF Len(m.rawJson) > 0 THEN "cp_season" ELSE "cp_verify"]
          [] s.pc = "cp_comp" /\ m.i < Len(m.uniqueCompetitions) -> s
          [] s.pc = "cp_comp" ->
                [s EXCEPT !.mem.i = 0,
                          !.pc = IF Len(m.rawJson) > 0 THEN "cp_season" ELSE "cp_verify"]
          [] s.pc = "cp_season" /\ m.i < Len(m.rawJson) -> s
          [] s.pc = "cp_season" -> [s EXCEPT !.mem.i = 0, !.pc = "cp_verify"]

\* Steps 1 and 2 without the test of countryMap.length
CpStartUnchecked(s, fs) ==
    LET rawJson == fs[1].items
        countryIdByName == CountryMap(s.db)
        uniqueCompetitions == CpUniqueCompetitions(rawJson)
        missingCountries == CpMissingCountries(uniqueCompetitions, countryIdByName)
    IN  IF fs[1].corrupt THEN Failed(s)
        ELSE CpNext([s EXCEPT !.pc = "cp_country",
                              !.mem = [rawJson |-> rawJson,
                                       countryIdByName |-> countryIdByName,
                                       uniqueCompetitions |-> uniqueCompetitions,
                                       missingCountries |-> missingCountries,
                                       i |-> 0]])

\* Steps 1 and 2: parse competitions.json, read the countries; no country
\* stored is an error
CpStart(s, fs) ==
    LET rawJson == fs[1].items
        countryIdByName == CountryMap(s.db)
        uniqueCompetitions == CpUniqueCompetitions(rawJson)
        missingCountries == CpMissingCountries(uniqueCompetitions, countryIdByName)
    IN  IF fs[1].corrupt \/ Len(s.db.tbl["countries"]) = 0 THEN Failed(s)
        ELSE CpNext([s EXCEPT !.pc = "cp_country",
                              !.mem = [rawJson |-> rawJson,
                                       countryIdByName |-> countryIdByName,
                                       uniqueCompetitions |-> uniqueCompetitions,
                                       missingCountries |-> missingCountries,
                                       i |-> 0]])

\* Step 3, one INSERT of one missing country; after the last one the map
\* name -> id is read again
CpInsertCountry(s, fs) ==
    LET m == s.mem
        rows == <<m.missingCountries[m.i + 1]>>
        res == InsertStmt(s.db, "countries", rows)
        s1 == Issue(s, "countries", rows)
        last == m.i + 1 >= Len(m.missingCountries)
    IN  IF ~res.ok THEN Failed(s1)
        ELSE CpNext([s1 EXCEPT !.db = res.db,
                               !.mem.i = m.i + 1,
                               !.mem.countryIdByName =
                                   IF last THEN CpMerge(m.countryIdByName, res.db)
                                   ELSE m.countryIdByName])

\* Step 3, one INSERT of one competition
CpInsertCompetition(s, fs) ==
    LET m == s.mem
        rows == <<CpCompetitionRow(m.uniqueCompetitions[m.i + 1], m.countryIdByName)>>
        res == InsertStmt(s.db, "competitions", rows)
        s1 == Issue(s, "competitions", rows)
    IN  IF ~res.ok THEN Failed(s1)
        ELSE CpNext([s1 EXCEPT !.db = res.db, !.mem.i = m.i + 1])

\* Step 4, one INSERT of one season
CpInsertSeason(s, fs) ==
    LET m == s.mem
        rows == <<CpSeasonRow(m.rawJson[m.i + 1])>>
        res == InsertStmt(s.db, "seasons", rows)
        s1 == Issue(s, "seasons", rows)
    IN  IF ~res.ok THEN Failed(s1)
        ELSE CpNext([s1 EXCEPT !.db = res.db, !.mem.i = m.i + 1])

\* Step 5: count the rows, report and exit 0
CpVerify(s, fs) == Done(s)

CpStep(s, fs) ==
    CASE s.pc = "start" -> CpStart(s, fs)
      [] s.pc = "cp_country" -> CpInsertCountry(s, fs)
      [] s.pc = "cp_comp" -> CpInsertCompetition(s, fs)
      [] s.pc = "cp_season" -> CpInsertSeason(s, fs)
      [] s.pc = "cp_verify" -> CpVerify(s, fs)

RECURSIVE CpRun(_, _)
CpRun(s, fs) ==
    IF s.pc \in {"done", "failed"} THEN s
    ELSE CHOOSE r \in {CpRun(next, fs) : next \in {CpStep(s, fs)}} : TRUE

CpStartA == loader = "competitions" /\ pc = "start" /\ Becomes(CpStart(Cur, files))
CpInsertCountryA == loader = "competitions" /\ pc = "cp_country" /\ Becomes(CpInsertCountry(Cur, files))
CpInsertCompetitionA == loader = "competitions" /\ pc = "cp_comp" /\ Becomes(CpInsertCompetition(Cur, files))
CpInsertSeasonA == loader = "competitions" /\ pc = "cp_season" /\ Becomes(CpInsertSeason(Cur, files))
CpVerifyA == loader = "competitions" /\ pc = "cp_verify" /\ Becomes(CpVerify(Cur, files))

InitCompetitions ==
    /\ loader = "competitions"
    /\ files \in {<<[corrupt |-> FALSE, items |-> its]>> : its \in Listings(CpItemUniverse)}
                 \cup {<<[corrupt |-> TRUE, items |-> <<>>]>>}
    /\ db \in {CpInitDB, SeedDB}
    /\ pc = "start"
    /\ mem = NoMem
    /\ stmts = <<>>
    /\ exitCode = NoExit
    /\ hist = <<>>

NextCompetitions ==
    \/ CpStartA
    \/ CpInsertCountryA
    \/ CpInsertCompetitionA
    \/ CpInsertSeasonA
    \/ CpVerifyA
    \/ Terminate
    \/ Rerun

SpecCompetitions == InitCompetitions /\ [][NextCompetitions]_vars

(***************************************************************************)
(* LINEUPS LOADER (load-lineups.ts).  A lineup file is                     *)
(* [name, corrupt, teams]; name is the file's base name without ".json",   *)
(* as a sequence of characters; a team is [team_id, lineup]; a player is   *)
(* [player_id, player_name, jersey_number, country, cards, positions],     *)
(* country being the country's name, "" when the player has none.          *)
(***************************************************************************)
LnPosA1 == [position_id |-> 1, from |-> <<0, 0>>, to |-> <<45, 0>>, from_period |-> 1,
            to_period |-> 1, start_reason |-> "Starting XI", end_reason |-> "Tactical Shift"]
LnPosA2 == [position_id |-> 2, from |-> <<45, 0>>, to |-> NoTime, from_period |-> 2,
            to_period |-> NULL, start_reason |-> "Tactical Shift", end_reason |-> "Final Whistle"]
LnPosB1 == [position_id |-> 1, from |-> <<60, 30>>, to |-> NoTime, from_period |-> 2,
            to_period |-> NULL, start_reason |-> "Substitution", end_reason |-> "Final Whistle"]
LnCardA == [time |-> <<30, 15>>, card_type |-> "Yellow Card", reason |-> "Foul Committed",
            period |-> 1]

LnPlayerA == [player_id |-> 1, player_name |-> "A", jersey_number |-> 9, country |-> "Spain",
              cards |-> <<LnCardA>>, positions |-> <<LnPosA1, LnPosA2>>]
LnPlayerB == [player_id |-> 2, player_name |-> "B", jersey_number |-> 4, country |-> "Wales",
              cards |-> <<>>, positions |-> <<LnPosB1>>]
LnPlayerC == [player_id |-> 3, player_name |-> "C", jersey_number |-> 1, country |-> "",
              cards |-> <<>>, positions |-> <<>>]
LnPlayerD == [player_id |-> 4, player_name |-> "D", jersey_number |-> 7, country |-> "Wales",
              cards |-> <<LnCardA>>, positions |-> <<>>]

LnFileUniverse == <<
    [name |-> <<"7">>, corrupt |-> FALSE,
     teams |-> <<[team_id |-> 10, lineup |-> <<LnPlayerA, LnPlayerB>>]>>],
    [name |-> <<"8">>, corrupt |-> FALSE,
     teams |-> <<[team_id |-> 20, lineup |-> <<LnPlayerC, LnPlayerD>>]>>],
    [name |-> <<"9">>, corrupt |-> TRUE, teams |-> <<>>],
    [name |-> <<"5">>, corrupt |-> FALSE,
     teams |-> <<[team_id |-> 10, lineup |-> <<LnPlayerA>>]>>],
    [name |-> <<"x", "1">>, corrupt |-> FALSE,
     teams |-> <<[team_id |-> 10, lineup |-> <<LnPlayerB>>]>>] >>

\* the database the matches and competitions loaders leave behind
LnInitDB ==
    CpRun(Fresh(CpInitDB),
          <<[corrupt |-> FALSE,
             items |-> <<CpItemUniverse[1], CpItemUniverse[2], CpItemUniverse[4]>>]>>).db

\* timeStringToInterval: "MM:SS" -> `${minutes} minutes ${seconds} seconds`,
\* which PostgreSQL stores as an interval; the model keeps its seconds
timeStringToInterval(time) == time[1] * 60 + time[2]

\* a stint without an end counted as ending where it starts
RECURSIVE SumStintSecondsNoDefault(_)
SumStintSecondsNoDefault(positions) ==
    IF positions = <<>> THEN 0
    ELSE LET pos == Head(positions)
             fromS == pos.from[1] * 60 + pos.from[2]
             toS == IF pos.to # NoTime THEN pos.to[1] * 60 + pos.to[2] ELSE fromS
         IN  (toS - fromS) + SumStintSecondsNoDefault(Tail(positions))

\* calculateMinutesPlayed, in hundredths of a minute:
\* Math.round(totalMinutes * 100) / 100, where one second is 1/60 minute
RECURSIVE SumStintSeconds(_)
SumStintSeconds(positions) ==
    IF positions = <<>> THEN 0
    ELSE LET pos == Head(positions)
             fromS == pos.from[1] * 60 + pos.from[2]
             toS == IF pos.to # NoTime THEN pos.to[1] * 60 + pos.to[2] ELSE 90 * 60
         IN  (toS - fromS) + SumStintSeconds(Tail(positions))

calculateMinutesPlayed(positions) ==
    (10 * SumStintSeconds(positions) + 3) \div 6

\* the match id of a lineup file: parseInt(path.basename(file, ".json"))
LnMatchId(file) == ParseInt(file.name)

\* loadLineupBatch: match_id -> {matchId, teams}; files with a bad name and
\* files that do not parse are skipped
RECURSIVE loadLineupBatch(_, _)
loadLineupBatch(fileBatch, batchMap) ==
    IF fileBatch = <<>> THEN batchMap
    ELSE LET file == Head(fileBatch)
             matchId == LnMatchId(file)
         IN  IF BadMatchId(matchId) \/ file.corrupt
             THEN loadLineupBatch(Tail(fileBatch), batchMap)
             ELSE loadLineupBatch(Tail(fileBatch),
                     MapSet(batchMap, matchId,
                            [matchId |-> matchId, teams |-> file.teams, src |-> file.name]))

\* for (const {matchId, teams} of batchMap.values()) for (team) for (player)
LnEntries(batchMap) ==
    Flatten([e \in 1..Len(batchMap) |->
        Flatten([t \in 1..Len(batchMap[e].v.teams) |->
            [p \in 1..Len(batchMap[e].v.teams[t].lineup) |->
                [matchId |-> batchMap[e].v.matchId,
                 src |-> batchMap[e].v.src,
                 team |-> batchMap[e].v.teams[t],
                 player |-> batchMap[e].v.teams[t].lineup[p]]]])])

LnNumBatches(fs) == (Len(fs) + LN_FILE_BATCH_SIZE - 1) \div LN_FILE_BATCH_SIZE
LnBatchEntries(fs, i) == LnEntries(loadLineupBatch(Slice(fs, i, LN_FILE_BATCH_SIZE), <<>>))

\* first pass: the unique players (a Map by player_id) and country names (a Set)
RECURSIVE LnCollect(_, _, _)
LnCollect(entries, playersMap, names) ==
    IF entries = <<>> THEN [playersMap |-> playersMap, names |-> names]
    ELSE LET player == Head(entries).player
         IN  LnCollect(Tail(entries),
                 MapSet(playersMap, player.player_id,
                        [playerId |-> player.player_id, playerName |-> player.player_name]),
                 IF player.country # "" THEN SetAdd(names, player.country) ELSE names)

LnScan(fs) ==
    LnCollect(Flatten([b \in 1..LnNumBatches(fs) |->
                  LnBatchEntries(fs, (b - 1) * LN_FILE_BATCH_SIZE)]), <<>>, <<>>)

\* Step 1: scan the files; mem holds the loader's local variables
LnStart(s, fs) ==
    LET scan == LnScan(fs)
        playersArray == MapValues(scan.playersMap)
    IN  [s EXCEPT !.pc = IF playersArray = <<>> THEN "ln_countries" ELSE "ln_players",
                  !.mem = [playersArray |-> playersArray,
                           allCountryNames |-> scan.names,
                           countryNameToId |-> <<>>,
                           i |-> 0, phase |-> 1, j |-> 0,
                           batch |-> <<<<>>, <<>>, <<>>>>]]

\* Step 2: one INSERT of a slice of the players
LnInsertPlayers(s, fs) ==
    LET m == s.mem
        rows == Slice(m.playersArray, m.i, LN_BATCH_SIZE)
        res == InsertStmt(s.db, "players", rows)
        s1 == Issue(s, "players", rows)
    IN  IF ~res.ok THEN Failed(s1)
        ELSE [s1 EXCEPT !.db = res.db,
                        !.mem.i = m.i + LN_BATCH_SIZE,
                        !.pc = IF m.i + LN_BATCH_SIZE < Len(m.playersArray)
                               THEN "ln_players" ELSE "ln_countries"]

\* Step 3: insert the countries that are named in lineups but not stored
LnMissingCountries(names, countryNameToId) ==
    LET missing == SelectSeq(names, LAMBDA n : ~MapHas(countryNameToId, n))
    IN  [i \in 1..Len(missing) |->
            [statsbombId |-> NULL, name |-> missing[i], type |-> "country"]]

LnEnsureCountries(s, fs) ==
    LET m == s.mem
        missing == LnMissingCountries(m.allCountryNames, CountryMap(s.db))
        res == InsertStmt(s.db, "countries", missing)
        s1 == IF missing = <<>> THEN s ELSE Issue(s, "countries", missing)
        d1 == IF missing = <<>> THEN s.db ELSE res.db
        next == IF Len(fs) = 0 THEN "ln_verify" ELSE "ln_build"
    IN  IF missing # <<>> /\ ~res.ok THEN Failed(s1)
        ELSE [s1 EXCEPT !.db = d1,
                        !.mem.countryNameToId = CountryMap(d1),
                        !.mem.i = 0,
                        !.pc = next]

\* the rows of one player; src (the file read) is bookkeeping of the model,
\* not a column
LnLineupRow(e, countryNameToId) ==
    [matchId |-> e.matchId,
     teamId |-> e.team.team_id,
     playerId |-> e.player.player_id,
     jerseyNumber |-> e.player.jersey_number,
     countryId |-> MapGet(countryNameToId, e.player.country),
     isStarter |-> Len(e.player.positions) > 0
                   /\ e.player.positions[1].start_reason = "Starting XI",
     minutesPlayed |-> calculateMinutesPlayed(e.player.positions),
     rawJson |-> e.player,
     src |-> e.src]

LnPositionRows(e) ==
    [k \in 1..Len(e.player.positions) |->
        LET pos == e.player.positions[k]
        IN  [matchId |-> e.matchId,
             playerId |-> e.player.player_id,
             positionId |-> pos.position_id,
             fromTime |-> timeStringToInterval(pos.from),
             toTime |-> IF pos.to # NoTime THEN timeStringToInterval(pos.to) ELSE NULL,
             fromPeriod |-> pos.from_period,
             toPeriod |-> pos.to_period,
             startReason |-> pos.start_reason,
             endReason |-> pos.end_reason,
             src |-> e.src]]

LnCardRows(e) ==
    [k \in 1..Len(e.player.cards) |->
        [matchId |-> e.matchId,
         playerId |-> e.player.player_id,
         time |-> timeStringToInterval(e.player.cards[k].time),
         cardType |-> e.player.cards[k].card_type,
         reason |-> e.player.cards[k].reason,
         period |-> e.player.cards[k].period,
         src |-> e.src]]

LnTable(phase) == <<"player_lineups", "player_positions", "player_cards">>[phase]

\* the next INSERT of the second pass: the first phase at or after (phase, j)
\* that still has rows; with none left, the next file batch or the end
LnSettle(s, fs) ==
    LET m == s.mem
        left(p) == IF p = m.phase THEN m.j < Len(m.batch[p]) ELSE Len(m.batch[p]) > 0
        cand == {p \in m.phase..3 : left(p)}
        p1 == CHOOSE p \in cand : \A q \in cand : p <= q
    IN  IF cand # {}
        THEN [s EXCEPT !.pc = "ln_insert",
                       !.mem.phase = p1,
                       !.mem.j = IF p1 = m.phase THEN m.j ELSE 0]
        ELSE [s EXCEPT !.pc = IF m.i + LN_FILE_BATCH_SIZE < Len(fs) THEN "ln_build" ELSE "ln_verify",
                       !.mem.i = m.i + LN_FILE_BATCH_SIZE,
                       !.mem.phase = 1, !.mem.j = 0,
                       !.mem.batch = <<<<>>, <<>>, <<>>>>]

\* Steps 4-6, building: read one batch of files into the three row arrays
LnBuildBatch(s, fs) ==
    LET m == s.mem
        entries == SelectSeq(LnBatchEntries(fs, m.i), LAMBDA e : e.player.country # "")
        lineups == [k \in 1..Len(entries) |-> LnLineupRow(entries[k], m.countryNameToId)]
        positions == Flatten([k \in 1..Len(entries) |-> LnPositionRows(entries[k])])
        cards == Flatten([k \in 1..Len(entries) |-> LnCardRows(entries[k])])
    IN  LnSettle([s EXCEPT !.mem.phase = 1, !.mem.j = 0,
                           !.mem.batch = <<lineups, positions, cards>>], fs)

\* Steps 4-6, writing: one INSERT of a slice of the current array
LnInsertBatch(s, fs) ==
    LET m == s.mem
        t == LnTable(m.phase)
        rows == Slice(m.batch[m.phase], m.j, LN_BATCH_SIZE)
        res == InsertStmt(s.db, t, rows)
        s1 == Issue(s, t, rows)
    IN  IF ~res.ok THEN Failed(s1)
        ELSE LnSettle([s1 EXCEPT !.db = res.db, !.mem.j = m.j + LN_BATCH_SIZE], fs)

\* Step 7: count the rows, report and exit 0
LnVerify(s, fs) == Done(s)

LnStep(s, fs) ==
    CASE s.pc = "start" -> LnStart(s, fs)
      [] s.pc = "ln_players" -> LnInsertPlayers(s, fs)
      [] s.pc = "ln_countries" -> LnEnsureCountries(s, fs)
      [] s.pc = "ln_build" -> LnBuildBatch(s, fs)
      [] s.pc = "ln_insert" -> LnInsertBatch(s, fs)
      [] s.pc = "ln_verify" -> LnVerify(s, fs)

\* a run of the loader that nothing interrupts
RECURSIVE LnRun(_, _)
LnRun(s, fs) ==
    IF s.pc \in {"done", "failed"} THEN s
    ELSE CHOOSE r \in {LnRun(next, fs) : next \in {LnStep(s, fs)}} : TRUE

LnStartA == loader = "lineups" /\ pc = "start" /\ Becomes(LnStart(Cur, files))
LnInsertPlayersA == loader = "lineups" /\ pc = "ln_players" /\ Becomes(LnInsertPlayers(Cur, files))
LnEnsureCountriesA == loader = "lineups" /\ pc = "ln_countries" /\ Becomes(LnEnsureCountries(Cur, files))
LnBuildBatchA == loader = "lineups" /\ pc = "ln_build" /\ Becomes(LnBuildBatch(Cur, files))
LnInsertBatchA == loader = "lineups" /\ pc = "ln_insert" /\ Becomes(LnInsertBatch(Cur, files))
LnVerifyA == loader = "lineups" /\ pc = "ln_verify" /\ Becomes(LnVerify(Cur, files))

InitLineups ==
    /\ loader = "lineups"
    /\ files \in Listings(LnFileUniverse)
    /\ db = LnInitDB
    /\ pc = "start"
    /\ mem = NoMem
    /\ stmts = <<>>
    /\ exitCode = NoExit
    /\ hist = <<>>

NextLineups ==
    \/ LnStartA
    \/ LnInsertPlayersA
    \/ LnEnsureCountriesA
    \/ LnBuildBatchA
    \/ LnInsertBatchA
    \/ LnVerifyA
    \/ Terminate
    \/ Rerun

SpecLineups == InitLineups /\ [][NextLineups]_vars

(***************************************************************************)
(* 360 LOADER (load-events.ts, third program).  A tracking file is         *)
(* [name, corrupt, frames]; a frame is [event_uuid, visible_area,          *)
(* freeze_frame]; a player of a freeze frame is                            *)
(* [teammate, actor, keeper, location].                                    *)
(***************************************************************************)
TsActor == [teammate |-> TRUE, actor |-> TRUE, keeper |-> FALSE, location |-> <<10, 10>>]
TsMate == [teammate |-> TRUE, actor |-> FALSE, keeper |-> FALSE, location |-> <<13, 14>>]
TsKeeper == [teammate |-> FALSE, actor |-> FALSE, keeper |-> TRUE, location |-> <<2, 4>>]

TsFrame1 == [event_uuid |-> "u1", visible_area |-> <<0, 0, 4, 0, 4, 3, 0, 0>>,
             freeze_frame |-> <<TsActor, TsMate>>]
TsFrame2 == [event_uuid |-> "u2", visible_area |-> <<0, 0>>, freeze_frame |-> <<TsKeeper>>]
TsFrame3 == [event_uuid |-> "u3", visible_area |-> <<0, 0, 0, 2, 2, 2, 2, 0, 0, 0>>,
             freeze_frame |-> <<>>]
TsFrame4 == [event_uuid |-> "u4", visible_area |-> <<0, 0, 4, 0, 4, 3, 0, 0>>,
             freeze_frame |-> <<TsMate, TsActor>>]

TsFileUniverse == <<
    [name |-> <<"7">>, corrupt |-> FALSE, frames |-> <<TsFrame1, TsFrame2, TsFrame3>>],
    [name |-> <<"8">>, corrupt |-> FALSE, frames |-> <<TsFrame4>>],
    [name |-> <<"9">>, corrupt |-> TRUE, frames |-> <<>>],
    [name |-> <<"5">>, corrupt |-> FALSE, frames |-> <<TsFrame2>>],
    [name |-> <<"x", "1">>, corrupt |-> FALSE, frames |-> <<TsFrame3>>] >>

Abs(x) == IF x < 0 THEN 0 - x ELSE x

\* calculateVisibleAreaSize (shoelace formula), in half units: the code
\* returns Math.abs(area / 2); NULL with fewer than three points.  coords
\* holds whole points, so coords.length / 2 - 1 is a whole number.
RECURSIVE ShoelaceSum(_, _, _)
ShoelaceSum(coords, numPoints, i) ==
    IF i >= numPoints THEN 0
    ELSE LET j == (i + 1) % numPoints
         IN  coords[i * 2 + 1] * coords[j * 2 + 2] - coords[j * 2 + 1] * coords[i * 2 + 2]
             + ShoelaceSum(coords, numPoints, i + 1)

\* the formula over every point, the last one not left out
calculateVisibleAreaSizeAllPoints(coords) ==
    IF Len(coords) < 6 THEN NULL
    ELSE Abs(ShoelaceSum(coords, Len(coords) \div 2, 0))

calculateVisibleAreaSize(coords) ==
    IF Len(coords) < 6 THEN NULL
    ELSE Abs(ShoelaceSum(coords, Len(coords) \div 2 - 1, 0))

\* Math.sqrt, rounded down to a whole number
Sqrt(n) == CHOOSE r \in 0..n : r * r <= n /\ n < (r + 1) * (r + 1)

calculateDistance(x1, y1, x2, y2) ==
    LET dx == x1 - x2
        dy == y1 - y2
    IN  Sqrt(dx * dx + dy * dy)

TsMatchId(file) == ParseInt(file.name)

\* loadFileBatch: match_id -> {matchId, frames}; files with a bad name and
\* files that do not parse are skipped, and nothing records that they were
RECURSIVE loadFileBatch(_, _)
loadFileBatch(filePaths, batchMap) ==
    IF filePaths = <<>> THEN batchMap
    ELSE LET file == Head(filePaths)
             matchId == TsMatchId(file)
         IN  IF BadMatchId(matchId) \/ file.corrupt
             THEN loadFileBatch(Tail(filePaths), batchMap)
             ELSE loadFileBatch(Tail(filePaths),
                     MapSet(batchMap, matchId,
                            [matchId |-> matchId, frames |-> file.frames, src |-> file.name]))

TsFrameRow(matchId, frame, src) ==
    [matchId |-> matchId,
     eventUuid |-> frame.event_uuid,
     visibleArea |-> frame.visible_area,
     playerCount |-> Len(frame.freeze_frame),
     visibleAreaSize |-> calculateVisibleAreaSize(frame.visible_area),
     rawJson |-> frame,
     src |-> src]

\* new Map(insertedFrames.map((f, idx) => [frameBatch[idx].event_uuid, f.id]))
RECURSIVE TsFrameIdMap(_, _, _, _)
TsFrameIdMap(insertedFrames, frameBatch, idx, m) ==
    IF idx > Len(insertedFrames) THEN m
    ELSE TsFrameIdMap(insertedFrames, frameBatch, idx + 1,
                      MapSet(m, frameBatch[idx].event_uuid, insertedFrames[idx].id))

\* frame.freeze_frame.find((p) => p.actor)
TsFindActor(freeze_frame) ==
    LET is == {i \in 1..Len(freeze_frame) : freeze_frame[i].actor}
    IN  IF is = {} THEN NULL ELSE CHOOSE i \in is : \A k \in is : i <= k

TsPlayerRows(frame, frameId) ==
    LET a == TsFindActor(frame.freeze_frame)
    IN  [k \in 1..Len(frame.freeze_frame) |->
            LET player == frame.freeze_frame[k]
            IN  [frameId |-> frameId,
                 teammate |-> player.teammate,
                 actor |-> player.actor,
                 keeper |-> player.keeper,
                 locationX |-> player.location[1],
                 locationY |-> player.location[2],
                 distanceToActor |->
                    IF a # NULL
                    THEN calculateDistance(player.location[1], player.location[2],
                                           frame.freeze_frame[a].location[1],
                                           frame.freeze_frame[a].location[2])
                    ELSE NULL,
                 inVisibleArea |-> TRUE]]

\* the player rows of the frames of frameBatch that have an id in frameIdMap
TsAllPlayers(frameBatch, frameIdMap) ==
    Flatten([k \in 1..Len(frameBatch) |->
        IF MapHas(frameIdMap, frameBatch[k].event_uuid)
        THEN TsPlayerRows(frameBatch[k], MapGet(frameIdMap, frameBatch[k].event_uuid))
        ELSE <<>>])

\* the database the matches, competitions and lineups loaders leave behind
TsInitDB == LnRun(Fresh(LnInitDB), <<LnFileUniverse[1], LnFileUniverse[2]>>).db

\* the loops of Step 3 up to the next INSERT: matches that are not stored
\* are skipped and counted, a match whose frames are all written counts as a
\* processed file, an empty queue ends the file batch
RECURSIVE TsSettle(_, _)
TsSettle(s, fs) ==
    LET m == s.mem
    IN  IF m.queue = <<>>
        THEN [s EXCEPT !.mem.i = m.i + TS_FILE_BATCH_SIZE,
                       !.pc = IF m.i + TS_FILE_BATCH_SIZE < Len(fs) THEN "ts_load" ELSE "ts_verify"]
        ELSE IF Head(m.queue).matchId \notin m.existingMatchIds
        THEN TsSettle([s EXCEPT !.mem.totalSkipped = @ + 1,
                                !.mem.queue = Tail(@), !.mem.j = 0], fs)
        ELSE IF m.j < Len(Head(m.queue).frames)
        THEN [s EXCEPT !.pc = "ts_frames"]
        ELSE TsSettle([s EXCEPT !.mem.totalFilesProcessed = @ + 1,
                                !.mem.queue = Tail(@), !.mem.j = 0], fs)

\* catch (err): the match counts as skipped, the loop goes on with the next
TsCatch(s, fs) ==
    TsSettle([s EXCEPT !.mem.totalSkipped = @ + 1, !.mem.queue = Tail(@), !.mem.j = 0,
                       !.mem.insertedFrames = 0, !.mem.allPlayers = <<>>], fs)

\* Steps 1 and 2: list the files, read the stored match ids
TsStart(s, fs) ==
    [s EXCEPT !.pc = IF Len(fs) = 0 THEN "ts_verify" ELSE "ts_load",
              !.mem = [existingMatchIds |-> {r.matchId : r \in Rows(s.db, "matches")},
                       i |-> 0, queue |-> <<>>, j |-> 0,
                       insertedFrames |-> 0, allPlayers |-> <<>>,
                       totalFramesInserted |-> 0, totalPlayersInserted |-> 0,
                       totalFilesProcessed |-> 0, totalSkipped |-> 0]]

\* Step 3, reading: loadFileBatch of the next FILE_BATCH_SIZE files
TsLoadBatch(s, fs) ==
    TsSettle([s EXCEPT !.mem.queue =
                  MapValues(loadFileBatch(Slice(fs, s.mem.i, TS_FILE_BATCH_SIZE), <<>>)),
                       !.mem.j = 0], fs)

\* after the player rows of a frame batch: the counters, then j += FRAME_BATCH_SIZE
TsAfterPlayers(s, fs) ==
    TsSettle([s EXCEPT !.mem.totalFramesInserted = @ + s.mem.insertedFrames,
                       !.mem.j = @ + FRAME_BATCH_SIZE,
                       !.mem.insertedFrames = 0,
                       !.mem.allPlayers = <<>>], fs)

\* Step 3, the INSERT of one batch of frames ... RETURNING id, event_uuid
TsInsertFrames(s, fs) ==
    LET m == s.mem
        cur == Head(m.queue)
        frameBatch == Slice(cur.frames, m.j, FRAME_BATCH_SIZE)
        frameData == [k \in 1..Len(frameBatch) |-> TsFrameRow(cur.matchId, frameBatch[k], cur.src)]
        res == InsertStmt(s.db, "three_sixty_frames", frameData)
        s1 == Issue(s, "three_sixty_frames", frameData)
        frameIdMap == TsFrameIdMap(res.ret, frameBatch, 1, <<>>)
        allPlayers == TsAllPlayers(frameBatch, frameIdMap)
        s2 == [s1 EXCEPT !.db = res.db,
                         !.mem.insertedFrames = Len(res.ret),
                         !.mem.allPlayers = allPlayers]
    IN  IF ~res.ok THEN TsCatch(s1, fs)
        ELSE IF Len(allPlayers) > 0 THEN [s2 EXCEPT !.pc = "ts_players"]
        ELSE TsAfterPlayers(s2, fs)

\* Step 3, the INSERT of the player rows of the frames just inserted
TsInsertPlayers(s, fs) ==
    LET m == s.mem
        res == InsertStmt(s.db, "three_sixty_players", m.allPlayers)
        s1 == Issue(s, "three_sixty_players", m.allPlayers)
    IN  IF ~res.ok THEN TsCatch(s1, fs)
        ELSE TsAfterPlayers([s1 EXCEPT !.db = res.db,
                                       !.mem.totalPlayersInserted = @ + Len(m.allPlayers)], fs)

\* Step 4: count the rows, report and exit 0; mem keeps the final report
TsVerify(s, fs) == Done(s)

TsStep(s, fs) ==
    CASE s.pc = "start" -> TsStart(s, fs)
      [] s.pc = "ts_load" -> TsLoadBatch(s, fs)
      [] s.pc = "ts_frames" -> TsInsertFrames(s, fs)
      [] s.pc = "ts_players" -> TsInsertPlayers(s, fs)
      [] s.pc = "ts_verify" -> TsVerify(s, fs)

RECURSIVE TsRun(_, _)
TsRun(s, fs) ==
    IF s.pc \in {"done", "failed"} THEN s
    ELSE CHOOSE r \in {TsRun(next, fs) : next \in {TsStep(s, fs)}} : TRUE

TsStartA == loader = "360" /\ pc = "start" /\ Becomes(TsStart(Cur, files))
TsLoadBatchA == loader = "360" /\ pc = "ts_load" /\ Becomes(TsLoadBatch(Cur, files))
TsInsertFramesA == loader = "360" /\ pc = "ts_frames" /\ Becomes(TsInsertFrames(Cur, files))
TsInsertPlayersA == loader = "360" /\ pc = "ts_players" /\ Becomes(TsInsertPlayers(Cur, files))
TsVerifyA == loader = "360" /\ pc = "ts_verify" /\ Becomes(TsVerify(Cur, files))

Init360 ==
    /\ loader = "360"
    /\ files \in Listings(TsFileUniverse)
    /\ db = TsInitDB
    /\ pc = "start"
    /\ mem = NoMem
    /\ stmts = <<>>
    /\ exitCode = NoExit
    /\ hist = <<>>

Next360 ==
    \/ TsStartA
    \/ TsLoadBatchA
    \/ TsInsertFramesA
    \/ TsInsertPlayersA
    \/ TsVerifyA
    \/ Terminate
    \/ Rerun

Spec360 == Init360 /\ [][Next360]_vars

(***************************************************************************)
(* EVENTS LOADER (load-events.ts, first program).  An events file is       *)
(* [name, corrupt, events].  An event is a record of the EventJson fields; *)
(* an optional field that is absent holds NULL (numbers), "" (texts),      *)
(* <<>> (arrays), FALSE (flags) or Absent (objects).                       *)
(***************************************************************************)
EvBase ==
    [id |-> "", index |-> 1, period |-> 1, timestamp |-> "00:00:01.000", minute |-> 0,
     second |-> 1, type |-> 30, possession |-> 1, possession_team |-> 10, play_pattern |-> NULL,
     team |-> 10, player |-> NULL, position |-> NULL, location |-> <<>>, duration |-> NULL,
     under_pressure |-> FALSE, off_camera |-> FALSE, out |-> FALSE, counterpress |-> FALSE,
     related_events |-> <<>>,
     pass |-> Absent, shot |-> Absent, carry |-> Absent, dribble |-> Absent, duel |-> Absent,
     block |-> Absent, interception |-> Absent, clearance |-> Absent, ball_receipt |-> Absent,
     ball_recovery |-> Absent, fifty_fifty |-> Absent, foul_committed |-> Absent,
     bad_behaviour |-> Absent, goalkeeper |-> Absent]

EvPass == [EvBase EXCEPT !.id = "e1", !.index = 1, !.type = 30, !.player = 1, !.position = 1,
                         !.location = <<60, 40>>, !.play_pattern = 1,
                         !.pass = [recipient |-> 2, length |-> 12, shot_assist |-> TRUE,
                                   goal_assist |-> TRUE, assisted_shot_id |-> ""],
                         !.related_events = <<"e2">>]
EvReceipt == [EvBase EXCEPT !.id = "e2", !.index = 2, !.type = 42, !.player = 2,
                            !.ball_receipt = [outcome |-> 9],
                            !.related_events = <<"e1", "e3">>]
EvPressure == [EvBase EXCEPT !.id = "e3", !.index = 3, !.type = 17, !.team = 20, !.player = 2,
                             !.under_pressure = TRUE, !.counterpress = TRUE]
EvShot == [EvBase EXCEPT !.id = "e4", !.index = 1, !.type = 16, !.player = 1, !.team = 20,
                         !.shot = [outcome |-> 97, statsbomb_xg |-> 7, first_time |-> TRUE,
                                   key_pass_id |-> ""],
                         !.related_events = <<"e5">>]
\* a pass event without its "pass" object
EvBarePass == [EvBase EXCEPT !.id = "e5", !.index = 2, !.type = 30, !.possession_team = 20]
EvFoul == [EvBase EXCEPT !.id = "e6", !.index = 3, !.type = 22, !.player = 2,
                         !.foul_committed = [penalty |-> TRUE, card |-> 7]]
EvCarry == [EvBase EXCEPT !.id = "e7", !.index = 1, !.type = 43, !.player = 1,
                          !.carry = [end_location |-> <<61, 41>>]]

EvFileUniverse == <<
    [name |-> <<"7">>, corrupt |-> FALSE, events |-> <<EvPass, EvReceipt, EvPressure>>],
    [name |-> <<"8">>, corrupt |-> FALSE, events |-> <<EvShot, EvBarePass, EvFoul>>],
    [name |-> <<"9">>, corrupt |-> TRUE, events |-> <<>>],
    [name |-> <<"5">>, corrupt |-> FALSE, events |-> <<EvCarry>>],
    [name |-> <<"x", "1">>, corrupt |-> FALSE, events |-> <<EvCarry>>] >>

\* the database the earlier loaders leave behind
EvInitDB == TsRun(Fresh(TsInitDB), <<TsFileUniverse[1], TsFileUniverse[2]>>).db

\* obj?.field || null and obj?.field || false of an object that may be absent
Opt(obj, f) == IF obj = Absent \/ f \notin DOMAIN obj THEN NULL ELSE OrNull(obj[f])
OptText(obj, f) == IF obj = Absent \/ f \notin DOMAIN obj THEN "" ELSE obj[f]
Flag(obj, f) == obj # Absent /\ f \in DOMAIN obj /\ obj[f]

\* both coordinates read from the first element
CoordFirst(arr, k) == IF 1 <= Len(arr) THEN arr[1] ELSE NULL

\* arr?.[k]?.toString() || null, k counted from 0
Coord(arr, k) == IF k + 1 <= Len(arr) THEN arr[k + 1] ELSE NULL

\* parseTimestamp: the text is handed to PostgreSQL as it is
parseTimestamp(ts) == ts

\* extractMatchId: parseInt of the file's base name
extractMatchId(file) == ParseInt(file.name)

\* eventData of loadEventsETL
EvEventRow(matchId, event, src) ==
    [id |-> event.id,
     index |-> event.index,
     matchId |-> matchId,
     period |-> event.period,
     timestamp |-> parseTimestamp(event.timestamp),
     minute |-> event.minute,
     second |-> event.second,
     typeId |-> event.type,
     possession |-> event.possession,
     possessionTeamId |-> event.possession_team,
     playPatternId |-> OrNull(event.play_pattern),
     teamId |-> event.team,
     playerId |-> OrNull(event.player),
     positionId |-> OrNull(event.position),
     locationX |-> Coord(event.location, 0),
     locationY |-> Coord(event.location, 1),
     duration |-> event.duration,
     underPressure |-> event.under_pressure,
     offCamera |-> event.off_camera,
     out |-> event.out,
     counterpress |-> event.counterpress,
     rawJson |-> event,
     src |-> src]

\* loadSubtypeTables: the type codes of a subtype table and the event's
\* object that must be present ("" for pressures, which need none)
SubtypeTypes(t) ==
    CASE t = "passes" -> {30} [] t = "shots" -> {16} [] t = "carries" -> {43}
      [] t = "dribbles" -> {14} [] t = "pressures" -> {17} [] t = "duels" -> {4}
      [] t = "blocks" -> {6} [] t = "interceptions" -> {10} [] t = "clearances" -> {9}
      [] t = "ball_receipts" -> {42} [] t = "ball_recoveries" -> {2}
      [] t = "fifty_fifties" -> {33} [] t = "fouls" -> {21, 22}
      [] t = "bad_behaviours" -> {24} [] t = "goalkeeper_events" -> {23}

SubtypeKey(t) ==
    CASE t = "passes" -> "pass" [] t = "shots" -> "shot" [] t = "carries" -> "carry"
      [] t = "dribbles" -> "dribble" [] t = "pressures" -> "" [] t = "duels" -> "duel"
      [] t = "blocks" -> "block" [] t = "interceptions" -> "interception"
      [] t = "clearances" -> "clearance" [] t = "ball_receipts" -> "ball_receipt"
      [] t = "ball_recoveries" -> "ball_recovery" [] t = "fifty_fifties" -> "fifty_fifty"
      [] t = "fouls" -> "foul_committed" [] t = "bad_behaviours" -> "bad_behaviour"
      [] t = "goalkeeper_events" -> "goalkeeper"

\* the condition without its test of the type code
EvHasSubtypeObject(t, event) == SubtypeKey(t) = "" \/ event[SubtypeKey(t)] # Absent

\* the condition without its test of the nested object
EvHasSubtypeType(t, event) == event.type \in SubtypeTypes(t)

\* the condition under which an event gets a row of subtype table t
EvHasSubtype(t, event) ==
    /\ event.type \in SubtypeTypes(t)
    /\ (SubtypeKey(t) = "" \/ event[SubtypeKey(t)] # Absent)

\* the row pushed to the batch of table t (its leading columns)
EvSubtypeRow(t, event) ==
    CASE t = "passes" ->
            [eventId |-> event.id,
             recipientId |-> Opt(event.pass, "recipient"),
             length |-> Opt(event.pass, "length"),
             shotAssist |-> Flag(event.pass, "shot_assist"),
             goalAssist |-> Flag(event.pass, "goal_assist"),
             assistedShotId |-> OptText(event.pass, "assisted_shot_id")]
      [] t = "shots" ->
            [eventId |-> event.id,
             shotXg |-> Opt(event.shot, "statsbomb_xg"),
             outcomeId |-> Opt(event.shot, "outcome"),
             firstTime |-> Flag(event.shot, "first_time"),
             keyPassId |-> OptText(event.shot, "key_pass_id")]
      [] t = "carries" ->
            [eventId |-> event.id,
             endX |-> Coord(event.carry.end_location, 0),
             endY |-> Coord(event.carry.end_location, 1)]
      [] t = "fouls" ->
            [eventId |-> event.id,
             penalty |-> Flag(event.foul_committed, "penalty"),
             cardId |-> Opt(event.foul_committed, "card"),
             counterpress |-> event.counterpress]
      [] t \in {"pressures", "duels", "blocks", "interceptions", "fifty_fifties"} ->
            [eventId |-> event.id, counterpress |-> event.counterpress]
      [] t \in {"dribbles", "ball_receipts", "goalkeeper_events"} ->
            [eventId |-> event.id, outcomeId |-> Opt(event[SubtypeKey(t)], "outcome")]
      [] t \in {"bad_behaviours"} ->
            [eventId |-> event.id, cardId |-> Opt(event.bad_behaviour, "card")]
      [] t \in {"clearances"} ->
            [eventId |-> event.id, aerialWon |-> Flag(event.clearance, "aerial_won")]
      [] t \in {"ball_recoveries"} ->
            [eventId |-> event.id, offensive |-> Flag(event.ball_recovery, "offensive")]

NoBatches == [t \in SubtypeTables |-> <<>>]

\* the pushes of one event, then of all events of a file
EvPushEvent(batches, event) ==
    [t \in SubtypeTables |->
        IF EvHasSubtype(t, event) THEN Append(batches[t], EvSubtypeRow(t, event))
        ELSE batches[t]]

RECURSIVE EvPushFile(_, _)
EvPushFile(batches, eventsJson) ==
    IF eventsJson = <<>> THEN batches
    ELSE EvPushFile(EvPushEvent(batches, Head(eventsJson)), Tail(eventsJson))

\* the relationship rows of one event
EvRelationRows(event) ==
    [k \in 1..Len(event.related_events) |->
        [eventId |-> event.id, relatedEventId |-> event.related_events[k]]]

\* PHASE 1, reading: from event ei of file fi on, push event rows until the
\* batch is full ("full"), the files end ("end") or a file name or a file's
\* content makes extractMatchId or JSON.parse throw ("throw")
RECURSIVE EvFillCore(_, _, _, _)
EvFillCore(fs, fi, ei, batch) ==
    IF fi > Len(fs) THEN [st |-> "end", fi |-> fi, ei |-> ei, batch |-> batch]
    ELSE IF ei = 0 /\ (BadMatchId(extractMatchId(fs[fi])) \/ fs[fi].corrupt)
    THEN [st |-> "throw", fi |-> fi, ei |-> ei, batch |-> batch]
    ELSE IF ei >= Len(fs[fi].events) THEN EvFillCore(fs, fi + 1, 0, batch)
    ELSE LET b2 == Append(batch, EvEventRow(extractMatchId(fs[fi]), fs[fi].events[ei + 1], fs[fi].name))
         IN  IF Len(b2) >= EVENT_BATCH_SIZE
             THEN [st |-> "full", fi |-> fi, ei |-> ei + 1, batch |-> b2]
             ELSE EvFillCore(fs, fi, ei + 1, b2)

\* PHASE 3, reading: the same walk for relationship rows; the batch is
\* looked at after each event
RECURSIVE EvFillRel(_, _, _, _)
EvFillRel(fs, fi, ei, batch) ==
    IF fi > Len(fs) THEN [st |-> "end", fi |-> fi, ei |-> ei, batch |-> batch]
    ELSE IF ei = 0 /\ fs[fi].corrupt
    THEN [st |-> "throw", fi |-> fi, ei |-> ei, batch |-> batch]
    ELSE IF ei >= Len(fs[fi].events) THEN EvFillRel(fs, fi + 1, 0, batch)
    ELSE LET b2 == batch \o EvRelationRows(fs[fi].events[ei + 1])
         IN  IF Len(b2) >= RELATIONSHIP_BATCH_SIZE
             THEN [st |-> "full", fi |-> fi, ei |-> ei + 1, batch |-> b2]
             ELSE EvFillRel(fs, fi, ei + 1, b2)

\* PHASE 2, reading: files are pushed to the subtype batches until
\* shouldFlush holds after a file
RECURSIVE EvFillSub(_, _, _)
EvFillSub(fs, fi, batches) ==
    IF fi > Len(fs) THEN [st |-> "end", fi |-> fi, batches |-> batches]
    ELSE IF fs[fi].corrupt THEN [st |-> "throw", fi |-> fi, batches |-> batches]
    ELSE LET b2 == EvPushFile(batches, fs[fi].events)
             filesProcessed == fi
             shouldFlush == \/ filesProcessed % SUBTYPE_FLUSH_FILES = 0
                            \/ filesProcessed = Len(fs)
                            \/ Len(b2["passes"]) >= SUBTYPE_BATCH_SIZE
                            \/ Len(b2["shots"]) >= SUBTYPE_BATCH_SIZE
         IN  IF shouldFlush THEN [st |-> "full", fi |-> fi + 1, batches |-> b2]
             ELSE EvFillSub(fs, fi + 1, b2)

EvStart(s, fs) ==
    [s EXCEPT !.pc = "ev_core",
              !.mem = [fi |-> 1, ei |-> 0, batches |-> NoBatches,
                       totalEventsLoaded |-> 0, totalRelationships |-> 0]]

\* PHASE 1: read on to the next full (or the last) batch of events, INSERT it
EvCore(s, fs) ==
    LET m == s.mem
        fill == EvFillCore(fs, m.fi, m.ei, <<>>)
        res == InsertStmt(s.db, "events", fill.batch)
        s1 == Issue(s, "events", fill.batch)
        s2 == [s1 EXCEPT !.db = res.db,
                         !.mem.totalEventsLoaded = @ + Len(fill.batch),
                         !.mem.fi = fill.fi, !.mem.ei = fill.ei]
        toSub(x) == [x EXCEPT !.pc = "ev_sub", !.mem.fi = 1, !.mem.ei = 0]
    IN  CASE fill.st = "throw" -> Failed(s)
          [] fill.st = "full" -> IF res.ok THEN s2 ELSE Failed(s1)
          [] fill.st = "end" ->
                IF Len(fill.batch) = 0 THEN toSub(s)
                ELSE IF res.ok THEN toSub(s2) ELSE Failed(s1)

\* flushSubtypeBatches: the tables that still have rows to write
EvPending(batches) == {k \in 1..Len(SubtypeOrder) : Len(batches[SubtypeOrder[k]]) > 0}

\* where the loader goes when a flush has nothing (more) to write
EvAfterFlush(s, fs) ==
    IF EvPending(s.mem.batches) # {} THEN [s EXCEPT !.pc = "ev_flush"]
    ELSE IF s.mem.fi > Len(fs) THEN [s EXCEPT !.pc = "ev_rel", !.mem.fi = 1, !.mem.ei = 0]
    ELSE [s EXCEPT !.pc = "ev_sub"]

\* PHASE 2, reading files up to the next flush
EvSubScan(s, fs) ==
    LET fill == EvFillSub(fs, s.mem.fi, s.mem.batches)
    IN  IF fill.st = "throw" THEN Failed(s)
        ELSE EvAfterFlush([s EXCEPT !.mem.fi = fill.fi, !.mem.batches = fill.batches], fs)

\* PHASE 2, one INSERT of flushSubtypeBatches: the whole batch of a table
EvFlush(s, fs) ==
    LET m == s.mem
        pend == EvPending(m.batches)
        t == SubtypeOrder[CHOOSE k \in pend : \A q \in pend : k <= q]
        res == InsertStmt(s.db, t, m.batches[t])
        s1 == Issue(s, t, m.batches[t])
    IN  IF ~res.ok THEN Failed(s1)
        ELSE EvAfterFlush([s1 EXCEPT !.db = res.db, !.mem.batches[t] = <<>>], fs)

\* PHASE 3: read on to the next full (or the last) batch of relationships
EvRel(s, fs) ==
    LET m == s.mem
        fill == EvFillRel(fs, m.fi, m.ei, <<>>)
        res == InsertStmt(s.db, "event_relationships", fill.batch)
        s1 == Issue(s, "event_relationships", fill.batch)
        s2 == [s1 EXCEPT !.db = res.db,
                         !.mem.totalRelationships = @ + Len(fill.batch),
                         !.mem.fi = fill.fi, !.mem.ei = fill.ei]
    IN  CASE fill.st = "throw" -> Failed(s)
          [] fill.st = "full" -> IF res.ok THEN s2 ELSE Failed(s1)
          [] fill.st = "end" ->
                IF Len(fill.batch) = 0 THEN [s EXCEPT !.pc = "ev_verify"]
                ELSE IF res.ok THEN [s2 EXCEPT !.pc = "ev_verify"] ELSE Failed(s1)

\* PHASE 4: count the rows, report and exit 0
EvVerify(s, fs) == Done(s)

EvStep(s, fs) ==
    CASE s.pc = "start" -> EvStart(s, fs)
      [] s.pc = "ev_core" -> EvCore(s, fs)
      [] s.pc = "ev_sub" -> EvSubScan(s, fs)
      [] s.pc = "ev_flush" -> EvFlush(s, fs)
      [] s.pc = "ev_rel" -> EvRel(s, fs)
      [] s.pc = "ev_verify" -> EvVerify(s, fs)

RECURSIVE EvRun(_, _)
EvRun(s, fs) ==
    IF s.pc \in {"done", "failed"} THEN s
    ELSE CHOOSE r \in {EvRun(next, fs) : next \in {EvStep(s, fs)}} : TRUE

EvStartA == loader = "events" /\ pc = "start" /\ Becomes(EvStart(Cur, files))
EvCoreA == loader = "events" /\ pc = "ev_core" /\ Becomes(EvCore(Cur, files))
EvSubScanA == loader = "events" /\ pc = "ev_sub" /\ Becomes(EvSubScan(Cur, files))
EvFlushA == loader = "events" /\ pc = "ev_flush" /\ Becomes(EvFlush(Cur, files))
EvRelA == loader = "events" /\ pc = "ev_rel" /\ Becomes(EvRel(Cur, files))
EvVerifyA == loader = "events" /\ pc = "ev_verify" /\ Becomes(EvVerify(Cur, files))

InitEvents ==
    /\ loader = "events"
    /\ files \in Listings(EvFileUniverse)
    /\ db = EvInitDB
    /\ pc = "start"
    /\ mem = NoMem
    /\ stmts = <<>>
    /\ exitCode = NoExit
    /\ hist = <<>>

NextEvents ==
    \/ EvStartA
    \/ EvCoreA
    \/ EvSubScanA
    \/ EvFlushA
    \/ EvRelA
    \/ EvVerifyA
    \/ Terminate
    \/ Rerun

SpecEvents == InitEvents /\ [][NextEvents]_vars

(***************************************************************************)
(* QUERY SANDBOX: validateSQL / executeSQL of the chat route and the       *)
(* POST /query handler of the playground route.  A text is the sequence    *)
(* of its characters.                                                      *)
(***************************************************************************)
MaxPieces == 3
LowerCase == <<"a", "b", "c", "d", "e", "f", "g", "h", "i", "j", "k", "l", "m", "n", "o", "p", "q", "r", "s", "t", "u", "v", "w", "x", "y", "z">>
UpperCase == <<"A", "B", "C", "D", "E", "F", "G", "H", "I", "J", "K", "L", "M", "N", "O", "P", "Q", "R", "S", "T", "U", "V", "W", "X", "Y", "Z">>

\* String.prototype.toUpperCase
ToUpperChar(c) ==
    IF \E i \in 1..26 : LowerCase[i] = c
    THEN UpperCase[CHOOSE i \in 1..26 : LowerCase[i] = c]
    ELSE c
toUpperCase(s) == [i \in 1..Len(s) |-> ToUpperChar(s[i])]

\* \w of a regular expression, and white space
IsWordChar(c) ==
    \/ \E i \in 1..26 : LowerCase[i] = c \/ UpperCase[i] = c
    \/ IsDigit(c)
    \/ c = "_"
IsSpace(c) == c \in {" ", "\t", "\n"}

\* String.prototype.trim
RECURSIVE TrimStart(_)
TrimStart(s) == IF s # <<>> /\ IsSpace(Head(s)) THEN TrimStart(Tail(s)) ELSE s
RECURSIVE TrimEnd(_)
TrimEnd(s) == IF s # <<>> /\ IsSpace(s[Len(s)]) THEN TrimEnd(SubSeq(s, 1, Len(s) - 1)) ELSE s
trim(s) == TrimEnd(TrimStart(s))

startsWith(s, p) == Len(s) >= Len(p) /\ SubSeq(s, 1, Len(p)) = p
endsWith(s, p) == Len(s) >= Len(p) /\ SubSeq(s, Len(s) - Len(p) + 1, Len(s)) = p

\* new RegExp(`\\b${keyword}\\b`, "i").test(s), keyword being letters
WordTest(keyword, s) ==
    \E i \in 1..Len(s) :
        /\ i + Len(keyword) - 1 <= Len(s)
        /\ toUpperCase(SubSeq(s, i, i + Len(keyword) - 1)) = toUpperCase(keyword)
        /\ (i = 1 \/ ~IsWordChar(s[i - 1]))
        /\ (i + Len(keyword) - 1 = Len(s) \/ ~IsWordChar(s[i + Len(keyword)]))

\* s.split(";").filter((x) => x.trim()).length
RECURSIVE SplitCount(_, _)
SplitCount(s, cur) ==
    IF s = <<>> THEN (IF trim(cur) # <<>> THEN 1 ELSE 0)
    ELSE IF Head(s) = ";" THEN (IF trim(cur) # <<>> THEN 1 ELSE 0) + SplitCount(Tail(s), <<>>)
    ELSE SplitCount(Tail(s), Append(cur, Head(s)))

\* the chat route's list
DANGEROUS_KEYWORDS == <<
    <<"I", "N", "S", "E", "R", "T">>,
    <<"U", "P", "D", "A", "T", "E">>,
    <<"D", "E", "L", "E", "T", "E">>,
    <<"D", "R", "O", "P">>,
    <<"T", "R", "U", "N", "C", "A", "T", "E">>,
    <<"A", "L", "T", "E", "R">>,
    <<"C", "R", "E", "A", "T", "E">>,
    <<"G", "R", "A", "N", "T">>,
    <<"R", "E", "V", "O", "K", "E">>,
    <<"E", "X", "E", "C", "U", "T", "E">>,
    <<"E", "X", "E", "C">>,
    <<"C", "A", "L", "L">>,
    <<"I", "N", "T", "O">>,
    <<"C", "O", "P", "Y">>,
    <<"V", "A", "C", "U", "U", "M">>,
    <<"S", "E", "T">>,
    <<"L", "O", "C", "K">> >>

\* the playground route's list
dangerousKeywords == SubSeq(DANGEROUS_KEYWORDS, 1, 11)

KwSELECT == <<"S", "E", "L", "E", "C", "T">>
KwWITH == <<"W", "I", "T", "H">>
KwLIMIT == <<"L", "I", "M", "I", "T">>
MsgOnlySelect == <<"O", "n", "l", "y", " ", "S", "E", "L", "E", "C", "T", " ", "q", "u", "e", "r", "i", "e", "s", " ", "a", "r", "e", " ", "a", "l", "l", "o", "w", "e", "d">>
MsgNotAllowed == <<" ", "o", "p", "e", "r", "a", "t", "i", "o", "n", "s", " ", "a", "r", "e", " ", "n", "o", "t", " ", "a", "l", "l", "o", "w", "e", "d">>
MsgMultiple == <<"M", "u", "l", "t", "i", "p", "l", "e", " ", "s", "t", "a", "t", "e", "m", "e", "n", "t", "s", " ", "a", "r", "e", " ", "n", "o", "t", " ", "a", "l", "l", "o", "w", "e", "d">>
MsgPgRejected == <<"Q", "u", "e", "r", "y", " ", "r", "e", "j", "e", "c", "t", "e", "d", ":", " ">>
MsgPgNotAllowed == <<" ", "o", "p", "e", "r", "a", "t", "i", "o", "n", "s", " ", "a", "r", "e", " ", "n", "o", "t", " ", "a", "l", "l", "o", "w", "e", "d", " ", "i", "n", " ", "p", "l", "a", "y", "g", "r", "o", "u", "n", "d", " ", "m", "o", "d", "e">>
MsgPgMultiple == <<"M", "u", "l", "t", "i", "p", "l", "e", " ", "s", "t", "a", "t", "e", "m", "e", "n", "t", "s", " ", "a", "r", "e", " ", "n", "o", "t", " ", "a", "l", "l", "o", "w", "e", "d", ".", " ", "E", "x", "e", "c", "u", "t", "e", " ", "o", "n", "e", " ", "q", "u", "e", "r", "y", " ", "a", "t", " ", "a", " ", "t", "i", "m", "e", ".">>
MsgPgOnlySelect == <<"O", "n", "l", "y", " ", "S", "E", "L", "E", "C", "T", " ", "q", "u", "e", "r", "i", "e", "s", " ", "a", "r", "e", " ", "a", "l", "l", "o", "w", "e", "d", " ", "i", "n", " ", "p", "l", "a", "y", "g", "r", "o", "u", "n", "d", " ", "m", "o", "d", "e">>
MsgPgRequired == <<"Q", "u", "e", "r", "y", " ", "i", "s", " ", "r", "e", "q", "u", "i", "r", "e", "d", " ", "a", "n", "d", " ", "m", "u", "s", "t", " ", "b", "e", " ", "a", " ", "s", "t", "r", "i", "n", "g">>
MsgPgEmpty == <<"Q", "u", "e", "r", "y", " ", "c", "a", "n", "n", "o", "t", " ", "b", "e", " ", "e", "m", "p", "t", "y">>
MsgPgFailed == <<"Q", "u", "e", "r", "y", " ", "e", "x", "e", "c", "u", "t", "i", "o", "n", " ", "f", "a", "i", "l", "e", "d">>
SqlBegin == <<"B", "E", "G", "I", "N", " ", "T", "R", "A", "N", "S", "A", "C", "T", "I", "O", "N", " ", "R", "E", "A", "D", " ", "O", "N", "L", "Y">>
SqlSetTimeout == <<"S", "E", "T", " ", "L", "O", "C", "A", "L", " ", "s", "t", "a", "t", "e", "m", "e", "n", "t", "_", "t", "i", "m", "e", "o", "u", "t", " ", "=", " ", "3", "0", "0", "0", "0">>
SqlLimit == <<" ", "L", "I", "M", "I", "T", " ", "1", "0", "0", "0">>
SqlCommit == <<"C", "O", "M", "M", "I", "T">>
SqlRollback == <<"R", "O", "L", "L", "B", "A", "C", "K">>

\* the first keyword of the list that the text holds as a whole word, or <<>>
FirstKeyword(keywords, s) ==
    LET hits == {k \in 1..Len(keywords) : WordTest(keywords[k], s)}
    IN  IF hits = {} THEN <<>> ELSE keywords[CHOOSE k \in hits : \A q \in hits : k <= q]

\* validateSQL: {valid, error}
validateSQL(query) ==
    LET upperQuery == toUpperCase(trim(query))
        keyword == FirstKeyword(DANGEROUS_KEYWORDS, query)
    IN  IF ~startsWith(upperQuery, KwSELECT) /\ ~startsWith(upperQuery, KwWITH)
        THEN [valid |-> FALSE, error |-> MsgOnlySelect]
        ELSE IF keyword # <<>>
        THEN [valid |-> FALSE, error |-> keyword \o MsgNotAllowed]
        ELSE IF SplitCount(query, <<>>) > 1
        THEN [valid |-> FALSE, error |-> MsgMultiple]
        ELSE [valid |-> TRUE, error |-> <<>>]

\* the checks of POST /query before the query is run: {valid, status, error}
playgroundValidate(query) ==
    LET trimmedQuery == trim(query)
        upperQuery == toUpperCase(trimmedQuery)
        keyword == FirstKeyword(dangerousKeywords, trimmedQuery)
    IN  IF query = <<>>
        THEN [valid |-> FALSE, status |-> 400, error |-> MsgPgRequired]
        ELSE IF trimmedQuery = <<>>
        THEN [valid |-> FALSE, status |-> 400, error |-> MsgPgEmpty]
        ELSE IF keyword # <<>>
        THEN [valid |-> FALSE, status |-> 403,
              error |-> MsgPgRejected \o keyword \o MsgPgNotAllowed]
        ELSE IF SplitCount(trimmedQuery, <<>>) > 1
        THEN [valid |-> FALSE, status |-> 403, error |-> MsgPgMultiple]
        ELSE IF ~startsWith(upperQuery, KwSELECT) /\ ~startsWith(upperQuery, KwWITH)
        THEN [valid |-> FALSE, status |-> 403, error |-> MsgPgOnlySelect]
        ELSE [valid |-> TRUE, status |-> 200, error |-> <<>>]

\* executeSQL: the statement sent inside the transaction
finalQuery(query) ==
    LET t == trim(query)
        cleanQuery == IF endsWith(t, <<";">>) THEN trim(SubSeq(t, 1, Len(t) - 1)) ELSE t
    IN  IF WordTest(KwLIMIT, cleanQuery) THEN cleanQuery ELSE cleanQuery \o SqlLimit

\* the texts a client sends: up to MaxPieces of these pieces, one after another
Pieces == {
    <<"S", "E", "L", "E", "C", "T">>,
    <<"s", "e", "l", "e", "c", "t">>,
    <<"W", "I", "T", "H">>,
    <<"D", "E", "L", "E", "T", "E">>,
    <<"d", "e", "l", "e", "t", "e">>,
    <<"U", "p", "d", "a", "t", "e">>,
    <<" ">>,
    <<";">>,
    <<"_">>,
    <<" ", "F", "R", "O", "M", " ", "p", "l", "a", "y", "e", "r", "s">>,
    <<" ", "I", "N", "T", "O", " ", "x">>,
    <<" ", "L", "I", "M", "I", "T", " ", "5">>,
    <<"(", "S", "E", "L", "E", "C", "T", " ", "1", " ", "L", "I", "M", "I", "T", " ", "5", ")">> }

RECURSIVE Texts(_)
Texts(n) == IF n = 0 THEN {<<>>} ELSE {<<>>} \cup {p \o t : p \in Pieces, t \in Texts(n - 1)}

\* the reply of a request: HTTP status (0 for the chat tool's result object),
\* the success flag and the error text
SbReply(s, status, success, error) ==
    [s EXCEPT !.pc = "done",
              !.mem = [@ EXCEPT !.status = status, !.success = success, !.error = error]]

SbSend(s, text) == [s EXCEPT !.stmts = Append(@, text)]

\* a request arrives with its text
SbRequest(s, query) ==
    [s EXCEPT !.pc = "sb_received",
              !.mem = [query |-> query, status |-> 0, success |-> FALSE, error |-> <<>>]]

\* executeSQL up to its first await; a validation error is thrown and the
\* tool's execute() turns it into {success: false, error: message}
SbExecuteSQL(s) ==
    LET validation == validateSQL(s.mem.query)
    IN  IF ~validation.valid
        THEN SbReply(s, 0, FALSE, validation.error)
        ELSE [SbSend(s, SqlBegin) EXCEPT !.pc = "sb_begun"]

SbSetTimeout(s) == [SbSend(s, SqlSetTimeout) EXCEPT !.pc = "sb_timeout_set"]

\* the query itself; the database answers or raises
SbRunQuery(s, ok) ==
    [SbSend(s, finalQuery(s.mem.query)) EXCEPT !.pc = IF ok THEN "sb_ran" ELSE "sb_raised"]

SbCommit(s) == SbReply(SbSend(s, SqlCommit), 0, TRUE, <<>>)

SbRollback(s) == SbReply(SbSend(s, SqlRollback), 0, FALSE, MsgPgFailed)

\* POST /query up to its await
SbPlaygroundQuery(s) ==
    LET validation == playgroundValidate(s.mem.query)
    IN  IF ~validation.valid
        THEN SbReply(s, validation.status, FALSE, validation.error)
        ELSE [SbSend(s, trim(s.mem.query)) EXCEPT !.pc = "sb_pg_sent"]

\* POST /query after its await: the rows, or the catch block
SbPlaygroundResult(s, ok) ==
    IF ok THEN SbReply(s, 200, TRUE, <<>>) ELSE SbReply(s, 400, FALSE, MsgPgFailed)

SbRequestA ==
    /\ loader \in {"chat", "playground"} /\ pc = "start"
    /\ \E query \in Texts(MaxPieces) : Becomes(SbRequest(Cur, query))
SbExecuteSQLA == loader = "chat" /\ pc = "sb_received" /\ Becomes(SbExecuteSQL(Cur))
SbSetTimeoutA == loader = "chat" /\ pc = "sb_begun" /\ Becomes(SbSetTimeout(Cur))
SbRunQueryA ==
    /\ loader = "chat" /\ pc = "sb_timeout_set"
    /\ \E ok \in BOOLEAN : Becomes(SbRunQuery(Cur, ok))
SbCommitA == loader = "chat" /\ pc = "sb_ran" /\ Becomes(SbCommit(Cur))
SbRollbackA == loader = "chat" /\ pc = "sb_raised" /\ Becomes(SbRollback(Cur))
SbPlaygroundQueryA == loader = "playground" /\ pc = "sb_received" /\ Becomes(SbPlaygroundQuery(Cur))
SbPlaygroundResultA ==
    /\ loader = "playground" /\ pc = "sb_pg_sent"
    /\ \E ok \in BOOLEAN : Becomes(SbPlaygroundResult(Cur, ok))

InitSandbox ==
    /\ loader \in {"chat", "playground"}
    /\ files = <<>>
    /\ db = SeedDB
    /\ pc = "start"
    /\ mem = NoMem
    /\ stmts = <<>>
    /\ exitCode = NoExit
    /\ hist = <<>>

NextSandbox ==
    \/ SbRequestA
    \/ SbExecuteSQLA
    \/ SbSetTimeoutA
    \/ SbRunQueryA
    \/ SbCommitA
    \/ SbRollbackA
    \/ SbPlaygroundQueryA
    \/ SbPlaygroundResultA

SpecSandbox == InitSandbox /\ [][NextSandbox]_vars

(***************************************************************************)
(* THE LOADERS TOGETHER: any one loader's run, on the database its         *)
(* predecessors in the pipeline left behind.                               *)
(***************************************************************************)
InitLoaders ==
    \/ InitMatches
    \/ InitCompetitions
    \/ InitLineups
    \/ Init360
    \/ InitEvents

NextLoaders ==
    \/ MtStartA
    \/ MtCountriesA
    \/ MtCompetitionsA
    \/ MtSeasonsA
    \/ MtStagesA
    \/ MtTeamsA
    \/ MtManagersA
    \/ MtStadiumsA
    \/ MtRefereesA
    \/ MtMatchesA
    \/ MtLinksA
    \/ MtVerifyA
    \/ CpStartA
    \/ CpInsertCountryA
    \/ CpInsertCompetitionA
    \/ CpInsertSeasonA
    \/ CpVerifyA
    \/ LnStartA
    \/ LnInsertPlayersA
    \/ LnEnsureCountriesA
    \/ LnBuildBatchA
    \/ LnInsertBatchA
    \/ LnVerifyA
    \/ TsStartA
    \/ TsLoadBatchA
    \/ TsInsertFramesA
    \/ TsInsertPlayersA
    \/ TsVerifyA
    \/ EvStartA
    \/ EvCoreA
    \/ EvSubScanA
    \/ EvFlushA
    \/ EvRelA
    \/ EvVerifyA
    \/ Terminate
    \/ Rerun

SpecLoaders == InitLoaders /\ [][NextLoaders]_vars

(***************************************************************************)
(* calculateMinutesPlayed on its own: the position stints of one player    *)
(* are drawn from a small set of times, and the function is applied.       *)
(***************************************************************************)
MaxStints == 2

StintTimes == {<<0, 0>>, <<0, 20>>, <<45, 0>>, <<60, 30>>, <<95, 0>>}

\* the stints: an end, when there is one, is not before the start
Stints ==
    {[from |-> f, to |-> t] : f \in StintTimes, t \in StintTimes \cup {NoTime}} \
    {st \in [from : StintTimes, to : StintTimes] :
        st.to[1] * 60 + st.to[2] < st.from[1] * 60 + st.from[2]}

RECURSIVE StintLists(_)
StintLists(n) ==
    IF n = 0 THEN {<<>>}
    ELSE {<<>>} \cup {<<st>> \o rest : st \in Stints, rest \in StintLists(n - 1)}

InitMinutes ==
    /\ loader = "minutes"
    /\ files \in StintLists(MaxStints)
    /\ db = EmptyDB
    /\ pc = "start"
    /\ mem = NoMem
    /\ stmts = <<>>
    /\ exitCode = NoExit
    /\ hist = <<>>

\* minutesPlayed: calculateMinutesPlayed(player.positions)
MinutesPlayedA ==
    /\ loader = "minutes" /\ pc = "start"
    /\ Becomes([Cur EXCEPT !.pc = "done",
                           !.mem = [result |-> calculateMinutesPlayed(files)]])

NextMinutes == MinutesPlayedA

SpecMinutes == InitMinutes /\ [][NextMinutes]_vars

(***************************************************************************)
(* AGGREGATION PASS (aggregatePlayerStats).  Six UPDATE statements on the  *)
(* players table, each computed from the fact tables, then a summary       *)
(* SELECT.  The six career columns of a players row have the migration's   *)
(* default 0 until the pass sets them.                                     *)
(***************************************************************************)
ShotOutcomeGoal == 97    \* seedEventLookups: { id: 97, name: "Goal" }

TotalColumns == {"total_matches", "total_goals", "total_assists", "total_yellow_cards",
                 "total_red_cards", "total_minutes_played"}

\* the players rows as the database holds them: the career columns at their default
AgDefaults(d) ==
    [d EXCEPT !.tbl["players"] =
        LET ps == d.tbl["players"]
        IN  [k \in 1..Len(ps) |-> ps[k] @@ [c \in TotalColumns |-> 0]]]

\* the database before the pass: the lineups loader has run on matches 7
\* and 8 and once more on match 7; the events loader has run on fs
AgFactsDB == LnRun(Fresh(EvInitDB), <<LnFileUniverse[1]>>).db

AgInitDB(fs) == AgDefaults(EvRun(Fresh(AgFactsDB), fs).db)

\* SELECT player_id, <aggregate> ... GROUP BY player_id: a function from the
\* player ids of the rows at positions idx of table t to aggregate(rows of the id)
AgGroupBy(d, t, idx, aggregate(_)) ==
    [p \in {d.tbl[t][i].playerId : i \in idx} |->
        aggregate({i \in idx : d.tbl[t][i].playerId = p})]

RECURSIVE AgSum(_, _, _)
AgSum(d, t, idx) ==
    IF idx = {} THEN 0
    ELSE LET i == CHOOSE i \in idx : TRUE
         IN  d.tbl[t][i].minutesPlayed + AgSum(d, t, idx \ {i})

\* UPDATE players p SET col = col + subquery.value ...: added, not replaced
AgUpdateAdd(d, col, subquery) ==
    [d EXCEPT !.tbl["players"] =
        LET ps == d.tbl["players"]
        IN  [k \in 1..Len(ps) |->
                IF ps[k].playerId \in DOMAIN subquery
                THEN [ps[k] EXCEPT ![col] = ps[k][col] + subquery[ps[k].playerId]]
                ELSE ps[k]]]

\* UPDATE players p SET col = subquery.value FROM (...) subquery
\* WHERE p.player_id = subquery.player_id
AgUpdate(d, col, subquery) ==
    [d EXCEPT !.tbl["players"] =
        LET ps == d.tbl["players"]
        IN  [k \in 1..Len(ps) |->
                IF ps[k].playerId \in DOMAIN subquery
                THEN [ps[k] EXCEPT ![col] = subquery[ps[k].playerId]]
                ELSE ps[k]]]

AgAll(d, t) == 1..Len(d.tbl[t])

\* COUNT(*) FROM player_lineups GROUP BY player_id: rows, not distinct matches
AgLineupCounts(d) ==
    AgGroupBy(d, "player_lineups", AgAll(d, "player_lineups"), LAMBDA g : Cardinality(g))

\* COUNT(DISTINCT match_id) FROM player_lineups GROUP BY player_id
AgMatchCounts(d) ==
    AgGroupBy(d, "player_lineups", AgAll(d, "player_lineups"),
              LAMBDA g : Cardinality({d.tbl["player_lineups"][i].matchId : i \in g}))

\* events e JOIN shots s ON e.id = s.event_id JOIN shot_outcomes so
\* ON s.outcome_id = so.id WHERE so.name = 'Goal' GROUP BY e.player_id
\* (shots.event_id is a primary key: an event joins at most one shot)
AgGoalCounts(d) ==
    AgGroupBy(d, "events",
              {i \in AgAll(d, "events") :
                  \E j \in AgAll(d, "shots") :
                      /\ d.tbl["shots"][j].eventId = d.tbl["events"][i].id
                      /\ d.tbl["shots"][j].outcomeId = ShotOutcomeGoal},
              LAMBDA g : Cardinality(g))

\* events e JOIN passes ps ON e.id = ps.event_id WHERE ps.goal_assist = true
AgAssistCounts(d) ==
    AgGroupBy(d, "events",
              {i \in AgAll(d, "events") :
                  \E j \in AgAll(d, "passes") :
                      /\ d.tbl["passes"][j].eventId = d.tbl["events"][i].id
                      /\ d.tbl["passes"][j].goalAssist},
              LAMBDA g : Cardinality(g))

\* COUNT(*) FROM player_cards WHERE card_type = 'Yellow Card'
AgYellowCounts(d) ==
    AgGroupBy(d, "player_cards",
              {i \in AgAll(d, "player_cards") : d.tbl["player_cards"][i].cardType = "Yellow Card"},
              LAMBDA g : Cardinality(g))

\* COUNT(*) FROM player_cards WHERE card_type IN ('Red Card', 'Second Yellow')
AgRedCounts(d) ==
    AgGroupBy(d, "player_cards",
              {i \in AgAll(d, "player_cards") :
                  d.tbl["player_cards"][i].cardType \in {"Red Card", "Second Yellow"}},
              LAMBDA g : Cardinality(g))

\* SUM(minutes_played) FROM player_lineups GROUP BY player_id
AgMinuteSums(d) ==
    AgGroupBy(d, "player_lineups", AgAll(d, "player_lineups"),
              LAMBDA g : AgSum(d, "player_lineups", g))

\* one statement of aggregatePlayerStats
AgStep(s) ==
    CASE s.pc = "start" ->
            [s EXCEPT !.db = AgUpdate(s.db, "total_matches", AgMatchCounts(s.db)),
                      !.pc = "ag_goals"]
      [] s.pc = "ag_goals" ->
            [s EXCEPT !.db = AgUpdate(s.db, "total_goals", AgGoalCounts(s.db)),
                      !.pc = "ag_assists"]
      [] s.pc = "ag_assists" ->
            [s EXCEPT !.db = AgUpdate(s.db, "total_assists", AgAssistCounts(s.db)),
                      !.pc = "ag_yellows"]
      [] s.pc = "ag_yellows" ->
            [s EXCEPT !.db = AgUpdate(s.db, "total_yellow_cards", AgYellowCounts(s.db)),
                      !.pc = "ag_reds"]
      [] s.pc = "ag_reds" ->
            [s EXCEPT !.db = AgUpdate(s.db, "total_red_cards", AgRedCounts(s.db)),
                      !.pc = "ag_minutes"]
      [] s.pc = "ag_minutes" ->
            [s EXCEPT !.db = AgUpdate(s.db, "total_minutes_played", AgMinuteSums(s.db)),
                      !.pc = "ag_summary"]
      [] s.pc = "ag_summary" -> Done(s)

RECURSIVE aggregatePlayerStats(_)
aggregatePlayerStats(s) ==
    IF s.pc = "done" THEN s
    ELSE CHOOSE r \in {aggregatePlayerStats(next) : next \in {AgStep(s)}} : TRUE

AgMatchesA == loader = "aggregate" /\ pc = "start" /\ Becomes(AgStep(Cur))
AgGoalsA == loader = "aggregate" /\ pc = "ag_goals" /\ Becomes(AgStep(Cur))
AgAssistsA == loader = "aggregate" /\ pc = "ag_assists" /\ Becomes(AgStep(Cur))
AgYellowsA == loader = "aggregate" /\ pc = "ag_yellows" /\ Becomes(AgStep(Cur))
AgRedsA == loader = "aggregate" /\ pc = "ag_reds" /\ Becomes(AgStep(Cur))
AgMinutesA == loader = "aggregate" /\ pc = "ag_minutes" /\ Becomes(AgStep(Cur))
AgSummaryA == loader = "aggregate" /\ pc = "ag_summary" /\ Becomes(AgStep(Cur))

InitAggregate ==
    /\ loader = "aggregate"
    /\ files \in Listings(EvFileUniverse)
    /\ db = AgInitDB(files)
    /\ pc = "start"
    /\ mem = NoMem
    /\ stmts = <<>>
    /\ exitCode = NoExit
    /\ hist = <<>>

NextAggregate ==
    \/ AgMatchesA
    \/ AgGoalsA
    \/ AgAssistsA
    \/ AgYellowsA
    \/ AgRedsA
    \/ AgMinutesA
    \/ AgSummaryA
    \/ Terminate
    \/ Rerun

SpecAggregate == InitAggregate /\ [][NextAggregate]_vars

(***************************************************************************)
(* LOAD SEQUENCE (docker-entrypoint.sh).  The script runs under set -e:    *)
(* with INIT_DB=true it seeds the lookup tables and runs the loaders as    *)
(* one process after another, and a program that exits non-zero ends the   *)
(* script; then it starts the application.  files holds the data           *)
(* directory of each loader and the INIT_DB setting; mem.ran lists the     *)
(* programs run so far, mem.codes their exit codes.                        *)
(***************************************************************************)
SqDirectories ==
    [matches : {<<MtFileUniverse[1], MtFileUniverse[2]>>, <<MtFileUniverse[1]>>,
                <<MtFileUniverse[4]>>},
     competitions : {<<[corrupt |-> FALSE,
                        items |-> <<CpItemUniverse[1], CpItemUniverse[2], CpItemUniverse[4]>>]>>,
                     <<[corrupt |-> TRUE, items |-> <<>>]>>},
     lineups : {<<LnFileUniverse[1], LnFileUniverse[2]>>, <<LnFileUniverse[3]>>},
     tracking : {<<TsFileUniverse[1], TsFileUniverse[2]>>, <<TsFileUniverse[3]>>},
     events : {<<EvFileUniverse[1], EvFileUniverse[2]>>, <<EvFileUniverse[3]>>},
     INIT_DB : BOOLEAN]

\* node dist/src/etl/load-<name>.js: the loader as a process of its own
SqLoader(name, d, dirs) ==
    CASE name = "matches" -> MtRun(Fresh(d), dirs.matches)
      [] name = "competitions" -> CpRun(Fresh(d), dirs.competitions)
      [] name = "lineups" -> LnRun(Fresh(d), dirs.lineups)
      [] name = "360" -> TsRun(Fresh(d), dirs.tracking)
      [] name = "events" -> EvRun(Fresh(d), dirs.events)

\* one line of the script under set -e: the loader runs to its end; a
\* non-zero exit code ends the script with that code
SqRun(s, dirs, name, next) ==
    CHOOSE s2 \in
        {IF r.exitCode # 0
         THEN [s EXCEPT !.db = r.db, !.mem.ran = Append(@, name),
                        !.mem.codes = Append(@, r.exitCode),
                        !.pc = "sq_failed", !.exitCode = r.exitCode]
         ELSE [s EXCEPT !.db = r.db, !.mem.ran = Append(@, name),
                        !.mem.codes = Append(@, r.exitCode), !.pc = next] :
            r \in {SqLoader(name, s.db, dirs)}} : TRUE

\* if [ "$INIT_DB" = "true" ]: seed-positions.js and seed-event-types.js,
\* else straight to the application
SqSeed(s, dirs) ==
    IF dirs.INIT_DB
    THEN [s EXCEPT !.db = SeedDB, !.pc = "sq_matches", !.mem = [ran |-> <<>>, codes |-> <<>>]]
    ELSE [s EXCEPT !.pc = "sq_app", !.mem = [ran |-> <<>>, codes |-> <<>>]]

SqSeedA == loader = "entrypoint" /\ pc = "start" /\ files.INIT_DB /\ Becomes(SqSeed(Cur, files))
SqSkipA == loader = "entrypoint" /\ pc = "start" /\ ~files.INIT_DB /\ Becomes(SqSeed(Cur, files))
SqMatchesA ==
    loader = "entrypoint" /\ pc = "sq_matches"
    /\ \E next \in {SqRun(Cur, files, "matches", "sq_competitions")} : Becomes(next)
SqCompetitionsA ==
    loader = "entrypoint" /\ pc = "sq_competitions"
    /\ \E next \in {SqRun(Cur, files, "competitions", "sq_lineups")} : Becomes(next)
SqLineupsA ==
    loader = "entrypoint" /\ pc = "sq_lineups"
    /\ \E next \in {SqRun(Cur, files, "lineups", "sq_360")} : Becomes(next)
Sq360A ==
    loader = "entrypoint" /\ pc = "sq_360"
    /\ \E next \in {SqRun(Cur, files, "360", "sq_events")} : Becomes(next)
\* after the events loader: exec "$@", the application
SqEventsA ==
    loader = "entrypoint" /\ pc = "sq_events"
    /\ \E next \in {SqRun(Cur, files, "events", "sq_app")} : Becomes(next)

InitSequence ==
    /\ loader = "entrypoint"
    /\ files \in SqDirectories
    /\ db = EmptyDB
    /\ pc = "start"
    /\ mem = NoMem
    /\ stmts = <<>>
    /\ exitCode = NoExit
    /\ hist = <<>>

NextSequence ==
    \/ SqSeedA
    \/ SqSkipA
    \/ SqMatchesA
    \/ SqCompetitionsA
    \/ SqLineupsA
    \/ Sq360A
    \/ SqEventsA

SpecSequence == InitSequence /\ [][NextSequence]_vars

(***************************************************************************)
(* The matches loader and the lineups loader on data in which a country    *)
(* key does not resolve: a matches file that names country 214 "España"    *)
(* where the other files name it "Spain" (countriesMap is keyed by the     *)
(* country id, countryNameToDbId by the name), and lineups with a player   *)
(* without a country.                                                      *)
(***************************************************************************)
MtEspana == [id |-> 214, name |-> "España"]

MtMatch6 ==
    [match_id |-> 6, match_date |-> "2020-09-26", competition |-> MtComp, season |-> MtSeason,
     home_team |-> MtHome(50, MtEspana, <<>>), away_team |-> MtAway(10, MtEspana, <<>>),
     home_score |-> 0, away_score |-> 0, match_week |-> 3, competition_stage |-> 1,
     stadium |-> Absent, referee |-> Absent]

MtRenamedUniverse == <<
    MtFileUniverse[1],
    [comp |-> <<"1", "1">>, name |-> <<"9", "2">>, corrupt |-> FALSE, matches |-> <<MtMatch6>>],
    MtFileUniverse[3] >>

InitUnresolved ==
    /\ \/ loader = "matches" /\ files \in Listings(MtRenamedUniverse) /\ db = SeedDB
       \/ loader = "lineups" /\ files \in Listings(LnFileUniverse) /\ db = LnInitDB
    /\ pc = "start"
    /\ mem = NoMem
    /\ stmts = <<>>
    /\ exitCode = NoExit
    /\ hist = <<>>

NextUnresolved ==
    \/ MtStartA
    \/ MtCountriesA
    \/ MtCompetitionsA
    \/ MtSeasonsA
    \/ MtStagesA
    \/ MtTeamsA
    \/ MtManagersA
    \/ MtStadiumsA
    \/ MtRefereesA
    \/ MtMatchesA
    \/ MtLinksA
    \/ MtVerifyA
    \/ LnStartA
    \/ LnInsertPlayersA
    \/ LnEnsureCountriesA
    \/ LnBuildBatchA
    \/ LnInsertBatchA
    \/ LnVerifyA
    \/ Terminate
    \/ Rerun

SpecUnresolved == InitUnresolved /\ [][NextUnresolved]_vars

(***************************************************************************)
(* THE 360 LOADER ON A FRAME THE DATABASE REJECTS.  A freeze-frame entry   *)
(* without coordinates: player.location[0] and player.location[1] read as  *)
(* undefined, the row goes to the INSERT with both columns null, and       *)
(* location_x and location_y are NOT NULL.                                 *)
(***************************************************************************)
TsNoLocation == [teammate |-> TRUE, actor |-> FALSE, keeper |-> FALSE, location |-> <<NULL, NULL>>]
TsFrame5 == [event_uuid |-> "u5", visible_area |-> <<0, 0>>, freeze_frame |-> <<TsNoLocation>>]

TsRejectedUniverse == <<
    [name |-> <<"7">>, corrupt |-> FALSE, frames |-> <<TsFrame1, TsFrame5, TsFrame3>>],
    [name |-> <<"8">>, corrupt |-> FALSE, frames |-> <<TsFrame4>>],
    [name |-> <<"5">>, corrupt |-> FALSE, frames |-> <<TsFrame2>>] >>

InitRejected ==
    /\ loader = "360"
    /\ files \in Listings(TsRejectedUniverse)
    /\ db = TsInitDB
    /\ pc = "start"
    /\ mem = NoMem
    /\ stmts = <<>>
    /\ exitCode = NoExit
    /\ hist = <<>>

NextRejected ==
    \/ TsStartA
    \/ TsLoadBatchA
    \/ TsInsertFramesA
    \/ TsInsertPlayersA
    \/ TsVerifyA
    \/ Terminate
    \/ Rerun

SpecRejected == InitRejected /\ [][NextRejected]_vars

(***************************************************************************)
(* THE EVENTS LOADER ON EVENTS WITHOUT A SUBTYPE ROW: a Starting XI event  *)
(* (type 35, which has no subtype table) and an event with the type code   *)
(* of a shot that carries a "carry" object and no "shot" object.           *)
(***************************************************************************)
EvStartingXI == [EvBase EXCEPT !.id = "e8", !.index = 1, !.type = 35]
EvShotCodeCarry == [EvBase EXCEPT !.id = "e9", !.index = 2, !.type = 16, !.player = 1,
                                  !.carry = [end_location |-> <<50, 30>>]]

EvSubtypeUniverse == <<
    EvFileUniverse[1],
    EvFileUniverse[2],
    [name |-> <<"9">>, corrupt |-> FALSE, events |-> <<EvStartingXI, EvShotCodeCarry>>] >>

InitSubtypes ==
    /\ loader = "events"
    /\ files \in Listings(EvSubtypeUniverse)
    /\ db = EvInitDB
    /\ pc = "start"
    /\ mem = NoMem
    /\ stmts = <<>>
    /\ exitCode = NoExit
    /\ hist = <<>>

SpecSubtypes == InitSubtypes /\ [][NextEvents]_vars

(***************************************************************************)
(* executeSQL OVER THE CONNECTION POOL.  db is drizzle(pool): every        *)
(* db.execute is a pool.query of its own, which takes a client from the    *)
(* pool, sends the one statement, and gives the client back when the       *)
(* answer has come.  Several chat requests are served at once, each at     *)
(* one of its awaits.  Here db holds the session of every connection, pc   *)
(* the position of every request, mem the pool, stmts the statements the   *)
(* server executed.                                                        *)
(***************************************************************************)
MaxRequests == 2
PoolMax == 2

Requests == 1..MaxRequests
\* a request raises at most once inside its try block, and a client is
\* removed only after an error
Connections == 1..(PoolMax + MaxRequests)

NoSession == [state |-> "none", owner |-> 0, timeout |-> FALSE]
Closed == [state |-> "closed", owner |-> 0, timeout |-> FALSE]

\* the server executes one statement of request r in a session; raises is
\* whether the query itself fails (timeout, malformed SQL, runtime error)
PgExecute(sess, kind, r, raises) ==
    IF sess.state = "aborted" /\ kind \notin {"commit", "rollback"}
    THEN [sess |-> sess, ok |-> FALSE]
    ELSE CASE kind = "begin" ->
                [sess |-> IF sess.state = "none"
                          THEN [state |-> "tx", owner |-> r, timeout |-> FALSE]
                          ELSE sess,
                 ok |-> TRUE]
           [] kind = "set" ->
                [sess |-> IF sess.state = "tx" THEN [sess EXCEPT !.timeout = TRUE] ELSE sess,
                 ok |-> TRUE]
           [] kind = "query" ->
                IF raises
                THEN [sess |-> IF sess.state = "tx" THEN [sess EXCEPT !.state = "aborted"] ELSE sess,
                      ok |-> FALSE]
                ELSE [sess |-> sess, ok |-> TRUE]
           [] kind \in {"commit", "rollback"} -> [sess |-> NoSession, ok |-> TRUE]

\* new pg.Pool(...): the client a pool.query gets, the one given back last
\* or, with none idle, a new one; 0 when the pool is full and all are busy
PoolConnect(m) ==
    IF m.idle # <<>> THEN m.idle[Len(m.idle)]
    ELSE IF Cardinality(m.clients) < PoolMax /\ m.created + 1 \in Connections
    THEN m.created + 1
    ELSE 0

\* the statement after kind in executeSQL: the try block, or the catch block
ExAfter(kind, ok) ==
    CASE kind = "rollback" -> "done"
      [] ~ok -> "rollback"
      [] kind = "begin" -> "set"
      [] kind = "set" -> "query"
      [] kind = "query" -> "commit"
      [] kind = "commit" -> "done"

\* the chat tool calls executeSQL with an accepted query
ExRequest(s, r) == [s EXCEPT !.pc[r] = "begin"]

\* await db.execute(...), first half: the statement goes out on a client
ExSend(s, r) ==
    LET c == PoolConnect(s.mem)
    IN  [s EXCEPT !.mem.idle = IF @ # <<>> THEN SubSeq(@, 1, Len(@) - 1) ELSE @,
                  !.mem.clients = @ \cup {c},
                  !.mem.created = IF c > @ THEN c ELSE @,
                  !.mem.at[r] = c,
                  !.db[c] = IF s.mem.idle = <<>> THEN NoSession ELSE @]

\* await db.execute(...), second half: the answer comes, the client goes
\* back to the pool, or is removed (kept = FALSE) after an error; execute()
\* of the tool returns {success: true, ...} or {success: false, error}
ExAnswer(s, r, raises, kept) ==
    LET c == s.mem.at[r]
        kind == s.pc[r]
        res == PgExecute(s.db[c], kind, r, raises)
        back == res.ok \/ kept
        next == ExAfter(kind, res.ok)
    IN  [s EXCEPT !.db[c] = IF back THEN res.sess ELSE Closed,
                  !.mem.idle = IF back THEN Append(@, c) ELSE @,
                  !.mem.clients = IF back THEN @ ELSE @ \ {c},
                  !.mem.at[r] = 0,
                  !.mem.failed[r] = @ \/ ~res.ok,
                  !.mem.reply[r] = IF next # "done" THEN @
                                   ELSE IF s.mem.failed[r] THEN "failure" ELSE "success",
                  !.pc[r] = next,
                  !.stmts = Append(@, [req |-> r, conn |-> c, kind |-> kind, ok |-> res.ok,
                                        inside |-> IF s.db[c].state = "none" THEN 0
                                                   ELSE s.db[c].owner])]

ExRequestA == \E r \in Requests : loader = "pool" /\ pc[r] = "start" /\ Becomes(ExRequest(Cur, r))
ExSendA ==
    \E r \in Requests :
        /\ loader = "pool" /\ pc[r] \notin {"start", "done"}
        /\ mem.at[r] = 0 /\ PoolConnect(mem) # 0
        /\ Becomes(ExSend(Cur, r))
ExAnswerA ==
    \E r \in Requests :
        /\ loader = "pool" /\ mem.at[r] # 0
        /\ \E raises \in BOOLEAN, kept \in BOOLEAN : Becomes(ExAnswer(Cur, r, raises, kept))

InitPool ==
    /\ loader = "pool"
    /\ files = <<>>
    /\ db = [c \in Connections |-> Closed]
    /\ pc = [r \in Requests |-> "start"]
    /\ mem = [idle |-> <<>>, clients |-> {}, created |-> 0,
              at |-> [r \in Requests |-> 0],
              failed |-> [r \in Requests |-> FALSE],
              reply |-> [r \in Requests |-> "none"]]
    /\ stmts = <<>>
    /\ exitCode = NoExit
    /\ hist = <<>>

NextPool ==
    \/ ExRequestA
    \/ ExSendA
    \/ ExAnswerA

SpecPool == InitPool /\ [][NextPool]_vars

(***************************************************************************)
(* calculateVisibleAreaSize on its own: a visible area is a flat list of   *)
(* the coordinates of up to MaxPoints points of a small grid.              *)
(***************************************************************************)
MaxPoints == 4

AreaPoints == {<<0, 0>>, <<4, 0>>, <<4, 3>>, <<0, 3>>, <<2, 5>>}

RECURSIVE AreaLists(_)
AreaLists(n) ==
    IF n = 0 THEN {<<>>}
    ELSE {<<>>} \cup {p \o rest : p \in AreaPoints, rest \in AreaLists(n - 1)}

InitArea ==
    /\ loader = "area"
    /\ files \in AreaLists(MaxPoints)
    /\ db = EmptyDB
    /\ pc = "start"
    /\ mem = NoMem
    /\ stmts = <<>>
    /\ exitCode = NoExit
    /\ hist = <<>>

\* visibleAreaSize: calculateVisibleAreaSize(frame.visible_area)
VisibleAreaSizeA ==
    /\ loader = "area" /\ pc = "start"
    /\ Becomes([Cur EXCEPT !.pc = "done",
                           !.mem = [result |-> calculateVisibleAreaSize(files)]])

NextArea == VisibleAreaSizeA

SpecArea == InitArea /\ [][NextArea]_vars

(***************************************************************************)
(* THE 360 LOADER RUN AGAIN ON UPDATED FILES: the database holds the       *)
(* frames of an earlier run, and the file of match 7 has since got a new   *)
(* frame between the frames that are stored.                               *)
(***************************************************************************)
TsFrame6 == [event_uuid |-> "u6", visible_area |-> <<0, 0>>, freeze_frame |-> <<TsKeeper>>]

TsUpdatedUniverse == <<
    [name |-> <<"7">>, corrupt |-> FALSE, frames |-> <<TsFrame1, TsFrame6, TsFrame2, TsFrame3>>],
    [name |-> <<"8">>, corrupt |-> FALSE, frames |-> <<TsFrame4>>],
    [name |-> <<"9">>, corrupt |-> FALSE, frames |-> <<TsFrame6, TsFrame6>>] >>

InitReload ==
    /\ loader = "360"
    /\ files \in Listings(TsUpdatedUniverse)
    /\ db = EvInitDB
    /\ pc = "start"
    /\ mem = NoMem
    /\ stmts = <<>>
    /\ exitCode = NoExit
    /\ hist = <<>>

SpecReload == InitReload /\ [][Next360]_vars

(***************************************************************************)
(* THE SCHEMA CACHE (getSchemaContext, clearSchemaCache).  Date.now() is a *)
(* clock of whole ticks; a schema text is known by the time its fetch      *)
(* began.  Callers overlap at the await of fetchDatabaseSchema.  mem holds *)
(* the two module variables, the clock and the time of the last clear; pc  *)
(* the position of every caller; stmts what each caller was last returned. *)
(***************************************************************************)
MaxCallers == 2
MaxTime == 4
CACHE_TTL_MS == 3

Callers == 1..MaxCallers
NoReturn == [began |-> NULL, called |-> NULL, cleared |-> NULL]

\* if (cachedSchema && lastFetchTime && now - lastFetchTime < CACHE_TTL_MS)
CacheValid(m, now) ==
    m.cachedSchema # NULL /\ m.lastFetchTime # NULL /\ now - m.lastFetchTime < CACHE_TTL_MS

\* what a caller gets: the text (by the start of its fetch), the time of
\* the call, and the time of the last clear before the return
ScReturn(s, c, began, called) ==
    [s EXCEPT !.stmts[c] = [began |-> began, called |-> called, cleared |-> s.mem.lastClear]]

\* getSchemaContext up to its await: the cached text, or the fetch begins
getSchemaContext(s, c) ==
    LET now == s.mem.clock
    IN  IF CacheValid(s.mem, now)
        THEN ScReturn(s, c, s.mem.cachedSchema, now)
        ELSE [s EXCEPT !.pc[c] = "fetching", !.mem.now[c] = now]

\* getSchemaContext after its await: the text is stored with the time the
\* call read before the fetch, and returned
ScFetched(s, c) ==
    LET now == s.mem.now[c]
        s1 == [s EXCEPT !.mem.cachedSchema = now, !.mem.lastFetchTime = now, !.pc[c] = "idle"]
    IN  ScReturn(s1, c, now, now)

clearSchemaCache(s) ==
    [s EXCEPT !.mem.cachedSchema = NULL, !.mem.lastFetchTime = NULL,
              !.mem.lastClear = s.mem.clock]

ScTick(s) == [s EXCEPT !.mem.clock = @ + 1]

getSchemaContextA ==
    \E c \in Callers : loader = "cache" /\ pc[c] = "idle" /\ Becomes(getSchemaContext(Cur, c))
ScFetchedA ==
    \E c \in Callers : loader = "cache" /\ pc[c] = "fetching" /\ Becomes(ScFetched(Cur, c))
clearSchemaCacheA == loader = "cache" /\ Becomes(clearSchemaCache(Cur))
ScTickA == loader = "cache" /\ mem.clock < MaxTime /\ Becomes(ScTick(Cur))

InitCache ==
    /\ loader = "cache"
    /\ files = <<>>
    /\ db = EmptyDB
    /\ pc = [c \in Callers |-> "idle"]
    /\ mem = [cachedSchema |-> NULL, lastFetchTime |-> NULL, clock |-> 1, lastClear |-> NULL,
              now |-> [c \in Callers |-> NULL]]
    /\ stmts = [c \in Callers |-> NoReturn]
    /\ exitCode = NoExit
    /\ hist = <<>>

NextCache ==
    \/ getSchemaContextA
    \/ ScFetchedA
    \/ clearSchemaCacheA
    \/ ScTickA

SpecCache == InitCache /\ [][NextCache]_vars

(***************************************************************************)
(* PROPERTIES.                                                             *)
(***************************************************************************)
\* the rows of table t as facts: without the serial id, a frame-player row
\* naming its frame by the frame's event_uuid
Fact(d, t, r) ==
    LET bare == [f \in DOMAIN r \ {"id", "frameId"} |-> r[f]]
    IN  IF t = "three_sixty_players"
        THEN bare @@ [frame |-> {e.eventUuid : e \in {x \in Rows(d, "three_sixty_frames") : x.id = r.frameId}}]
        ELSE bare

Facts(d, t) == {Fact(d, t, d.tbl[t][i]) : i \in 1..Len(d.tbl[t])}

SameCounts(d1, d2) == \A t \in Tables : Count(d1, t) = Count(d2, t)
SameContents(d1, d2) == SameCounts(d1, d2) /\ \A t \in Tables : Facts(d1, t) = Facts(d2, t)

\* C1: a second complete run of a loader (here the lineups loader) on
\* unchanged files ends without error and leaves every table with the row
\* count it had after the first run.
C1_SecondRunKeepsCounts ==
    (loader = "lineups" /\ hist = <<"done">> /\ pc \in {"done", "failed"}) =>
        /\ pc = "done"
        /\ SameCounts(db, LnRun(Fresh(LnInitDB), files).db)

\* C2: a loader (here the 360 loader) that was terminated between two of
\* its writes and then re-run to completion leaves the tables as one
\* uninterrupted run does: no row missing, no row duplicated.
C2_ResumedRunEqualsCleanRun ==
    (loader = "360" /\ hist = <<"killed">> /\ pc = "done") =>
        SameContents(db, TsRun(Fresh(TsInitDB), files).db)

\* the references of table t: <<column, referenced table, referenced column,
\* the column's null>>
\* (the references into the lookup tables of outcomes, body parts, heights,
\* techniques and play patterns, which a seed script fills, are left out)
References(t) ==
    CASE t \in {"competitions", "teams", "managers", "stadiums", "referees"} ->
            {<<"countryId", "countries", "id", NULL>>}
      [] t = "seasons" -> {<<"competitionId", "competitions", "competitionId", NULL>>}
      [] t = "matches" ->
            {<<"competitionId", "competitions", "competitionId", NULL>>,
             <<"homeTeamId", "teams", "teamId", NULL>>,
             <<"awayTeamId", "teams", "teamId", NULL>>,
             <<"competitionStageId", "competition_stages", "id", NULL>>,
             <<"stadiumId", "stadiums", "stadiumId", NULL>>,
             <<"refereeId", "referees", "refereeId", NULL>>}
      [] t = "match_managers" ->
            {<<"matchId", "matches", "matchId", NULL>>,
             <<"managerId", "managers", "managerId", NULL>>,
             <<"teamId", "teams", "teamId", NULL>>}
      [] t = "player_lineups" ->
            {<<"matchId", "matches", "matchId", NULL>>,
             <<"teamId", "teams", "teamId", NULL>>,
             <<"playerId", "players", "playerId", NULL>>,
             <<"countryId", "countries", "id", NULL>>}
      [] t = "player_positions" ->
            {<<"matchId", "matches", "matchId", NULL>>,
             <<"playerId", "players", "playerId", NULL>>,
             <<"positionId", "positions", "id", NULL>>}
      [] t = "player_cards" ->
            {<<"matchId", "matches", "matchId", NULL>>,
             <<"playerId", "players", "playerId", NULL>>}
      [] t = "three_sixty_frames" -> {<<"matchId", "matches", "matchId", NULL>>}
      [] t = "three_sixty_players" -> {<<"frameId", "three_sixty_frames", "id", NULL>>}
      [] t = "events" ->
            {<<"matchId", "matches", "matchId", NULL>>,
             <<"typeId", "event_types", "id", NULL>>,
             <<"possessionTeamId", "teams", "teamId", NULL>>,
             <<"teamId", "teams", "teamId", NULL>>,
             <<"playerId", "players", "playerId", NULL>>,
             <<"positionId", "positions", "id", NULL>>}
      [] t = "event_relationships" ->
            {<<"eventId", "events", "id", "">>,
             <<"relatedEventId", "events", "id", "">>}
      [] t = "passes" ->
            {<<"eventId", "events", "id", "">>,
             <<"recipientId", "players", "playerId", NULL>>,
             <<"assistedShotId", "events", "id", "">>}
      [] t = "shots" ->
            {<<"eventId", "events", "id", "">>,
             <<"keyPassId", "events", "id", "">>}
      [] t \in SubtypeTables \ {"passes", "shots"} -> {<<"eventId", "events", "id", "">>}
      [] OTHER -> {}

NoOrphans(d) ==
    \A t \in Tables : \A r \in Rows(d, t) : \A ref \in References(t) :
        \/ r[ref[1]] = ref[4]
        \/ \E e \in Rows(d, ref[2]) : e[ref[3]] = r[ref[1]]

\* the lineup entries of all files, as the lineups loader reads them
AllLineupEntries(fs) ==
    Flatten([b \in 1..LnNumBatches(fs) |-> LnBatchEntries(fs, (b - 1) * LN_FILE_BATCH_SIZE)])

CountryNamed(d, id, name) == \E c \in Rows(d, "countries") : c.id = id /\ c.name = name

\* C3: no stored row has a reference to a row that does not exist; and when
\* the lineups loader or the competitions loader has completed, every lineup
\* entry that names a country has a row whose country reference is the
\* stored country of that name, and every competition of competitions.json
\* has a row whose country reference is a stored country.
C3_NoOrphans ==
    /\ NoOrphans(db)
    /\ (loader = "lineups" /\ pc = "done") =>
          \A i \in 1..Len(AllLineupEntries(files)) :
              LET e == AllLineupEntries(files)[i]
              IN  e.player.country # "" =>
                    \E r \in Rows(db, "player_lineups") :
                        /\ r.matchId = e.matchId
                        /\ r.playerId = e.player.player_id
                        /\ CountryNamed(db, r.countryId, e.player.country)
    /\ (loader = "competitions" /\ pc = "done") =>
          \A i \in 1..Len(files[1].items) :
              \E r \in Rows(db, "competitions") :
                  /\ r.competitionId = files[1].items[i].competition_id
                  /\ \E c \in Rows(db, "countries") : c.id = r.countryId

\* a completed lineups run whose lineup row refers to Wales, a country the
\* match files do not name
C3_Witness_LineupCountry ==
    /\ loader = "lineups" /\ pc = "done"
    /\ ~\E c \in Rows(LnInitDB, "countries") : c.name = "Wales"
    /\ \E r \in Rows(db, "player_lineups") : CountryNamed(db, r.countryId, "Wales")

\* a field of a parsed JSON object, NULL when the object has no such field
Field(raw, f) == IF f \in DOMAIN raw THEN raw[f] ELSE NULL
\* x || null
Truthy(x) == IF x = 0 THEN NULL ELSE x
\* obj?.id || null
IdOf(obj) == IF "id" \in DOMAIN obj THEN Truthy(obj.id) ELSE NULL
\* arr?.[k]
At(arr, k) == IF k <= Len(arr) THEN arr[k] ELSE NULL

\* the columns of a row that its own raw_json determines
MatchColumns(raw) ==
    [matchId |-> raw.match_id,
     competitionId |-> raw.competition.competition_id,
     seasonId |-> raw.season.season_id,
     matchDate |-> raw.match_date,
     homeTeamId |-> raw.home_team.home_team_id,
     awayTeamId |-> raw.away_team.away_team_id,
     homeScore |-> raw.home_score,
     awayScore |-> raw.away_score,
     matchWeek |-> Truthy(raw.match_week),
     competitionStageId |-> Truthy(raw.competition_stage),
     stadiumId |-> IdOf(raw.stadium),
     refereeId |-> IdOf(raw.referee)]

EventColumns(raw) ==
    [id |-> raw.id, index |-> raw.index, period |-> raw.period,
     timestamp |-> raw.timestamp, minute |-> raw.minute, second |-> raw.second,
     typeId |-> raw.type, possession |-> raw.possession,
     possessionTeamId |-> raw.possession_team,
     playPatternId |-> Truthy(raw.play_pattern),
     teamId |-> raw.team,
     playerId |-> Truthy(raw.player),
     positionId |-> Truthy(raw.position),
     locationX |-> At(raw.location, 1),
     locationY |-> At(raw.location, 2),
     duration |-> raw.duration,
     underPressure |-> raw.under_pressure, offCamera |-> raw.off_camera,
     out |-> raw.out, counterpress |-> raw.counterpress]

LineupColumns(raw) ==
    [playerId |-> raw.player_id,
     jerseyNumber |-> raw.jersey_number,
     isStarter |-> raw.positions # <<>> /\ raw.positions[1].start_reason = "Starting XI",
     minutesPlayed |-> calculateMinutesPlayed(raw.positions)]

FrameColumns(raw) ==
    [eventUuid |-> raw.event_uuid,
     visibleArea |-> raw.visible_area,
     playerCount |-> Len(raw.freeze_frame),
     visibleAreaSize |-> calculateVisibleAreaSize(raw.visible_area)]

RawColumns(t, raw) ==
    CASE t = "matches" -> MatchColumns(raw)
      [] t = "events" -> EventColumns(raw)
      [] t = "player_lineups" -> LineupColumns(raw)
      [] t = "three_sixty_frames" -> FrameColumns(raw)

BackedUpTables == {"matches", "events", "player_lineups", "three_sixty_frames"}

OwnColumnsRoundTrip(d) ==
    \A t \in BackedUpTables : \A r \in Rows(d, t) :
        \A c \in DOMAIN RawColumns(t, r.rawJson) : r[c] = RawColumns(t, r.rawJson)[c]

SubtypeTablesOf(d, id) == {t \in SubtypeTables : \E r \in Rows(d, t) : r.eventId = id}

\* C5: for every stored event row (event ids being unique over the source
\* files), at most one subtype table holds a row keyed by the event's id,
\* and that table is the one of the type code stored on the event row.
C5_OneSubtypeOfOwnType ==
    \A e \in Rows(db, "events") :
        /\ Cardinality(SubtypeTablesOf(db, e.id)) <= 1
        /\ \A t \in SubtypeTablesOf(db, e.id) : e.typeId \in SubtypeTypes(t)

\* the events loader has stored a pass with its row in passes only, and a
\* pass event without a pass object that has no subtype row
C5_Witness_PassAndBarePass ==
    /\ loader = "events" /\ pc = "done"
    /\ \E e \in Rows(db, "events") :
          e.id = "e1" /\ e.typeId = 30 /\ SubtypeTablesOf(db, e.id) = {"passes"}
    /\ \E e \in Rows(db, "events") :
          e.id = "e5" /\ e.typeId = 30 /\ SubtypeTablesOf(db, e.id) = {}

FileNamedTables ==
    {"player_lineups", "player_positions", "player_cards", "three_sixty_frames", "events"}

MatchIdFromFileName(d, tables) ==
    \A t \in tables : \A r \in Rows(d, t) : r.matchId = ParseInt(r.src)

\* C6 as stated: every stored row that carries a match id, a match row
\* included, has the number in the name of the file it was read from.
C6_MatchIdFromFileNameEverywhere ==
    MatchIdFromFileName(db, FileNamedTables \cup {"matches"})

\* C6 (amended): every stored lineup, position-stint, card, tracking-frame
\* and event row has as match id the number in the name of the file it was
\* read from; a match row, read from a file named after its season, has the
\* match_id field of its payload.
C6_MatchIdFromFileNameOrMatchPayload ==
    /\ MatchIdFromFileName(db, FileNamedTables)
    /\ \A r \in Rows(db, "matches") : r.matchId = r.rawJson.match_id

\* the events loader has stored the events of 7.json under match 7, whose
\* match row was read from a file of another name
C6_Witness_EventAndMatch ==
    /\ loader = "events" /\ pc = "done"
    /\ \E r \in Rows(db, "events") : r.src = <<"7">> /\ r.matchId = 7
    /\ \E m \in Rows(db, "matches") : m.matchId = 7 /\ ParseInt(m.src) # 7
    /\ \A t \in FileNamedTables : Count(db, t) > 0

\* the files of a listing that parse
Parseable(fs) == SelectSeq(fs, LAMBDA f : ~f.corrupt)

\* the run of the current loader on the files that parse
RunOnParseable ==
    CASE loader = "matches" -> MtRun(Fresh(SeedDB), Parseable(files))
      [] loader = "lineups" -> LnRun(Fresh(LnInitDB), Parseable(files))
      [] loader = "360" -> TsRun(Fresh(TsInitDB), Parseable(files))
      [] loader = "events" -> EvRun(Fresh(EvInitDB), Parseable(files))

\* C7: in the matches, lineups, 360 and events loaders, a listing with a
\* file that does not parse (its other files loading without error) ends
\* with exit code 0 and stores what the other files alone would store: the
\* unparseable file is skipped, the others are processed.
C7_UnparseableFileSkipped ==
    (/\ loader \in {"matches", "lineups", "360", "events"}
     /\ hist = <<>> /\ pc \in {"done", "failed"}
     /\ \E i \in 1..Len(files) : files[i].corrupt
     /\ RunOnParseable.pc = "done") =>
        /\ pc = "done" /\ exitCode = 0
        /\ SameContents(db, RunOnParseable.db)

NumCorrupt(fs) == Cardinality({i \in 1..Len(fs) : fs[i].corrupt})

\* every file has a match id for a name, and every file that parses is of
\* a stored match
TrackingFilesInOrder(d, fs) ==
    \A i \in 1..Len(fs) :
        /\ ~BadMatchId(TsMatchId(fs[i]))
        /\ fs[i].corrupt \/ \E r \in Rows(d, "matches") : r.matchId = TsMatchId(fs[i])

\* C8: a completed first run of the 360 loader over n tracking files of
\* which k do not parse (the others being files of stored matches) reports
\* n - k files processed and k files skipped.
C8_ReportAccountsForEveryFile ==
    (/\ loader = "360" /\ hist = <<>> /\ pc = "done"
     /\ TrackingFilesInOrder(db, files)) =>
        /\ mem.totalFilesProcessed = Len(files) - NumCorrupt(files)
        /\ mem.totalSkipped = NumCorrupt(files)

\* the batch threshold under which the running loader writes table t, 0 for
\* a table it does not write in batches
Threshold(t) ==
    CASE loader = "matches" /\ t = "matches" -> MT_BATCH_SIZE
      [] loader = "matches" /\ t = "match_managers" -> LINK_BATCH_SIZE
      [] loader = "lineups" /\ t \in {"players", "player_lineups", "player_positions",
                                      "player_cards"} -> LN_BATCH_SIZE
      [] loader = "360" /\ t = "three_sixty_frames" -> FRAME_BATCH_SIZE
      [] loader = "events" /\ t = "events" -> EVENT_BATCH_SIZE
      [] loader = "events" /\ t \in {"passes", "shots"} -> SUBTYPE_BATCH_SIZE
      [] loader = "events" /\ t = "event_relationships" -> RELATIONSHIP_BATCH_SIZE
      [] OTHER -> 0

\* the row counts of the INSERT statements issued for table t, in order
InsertSizes(t) ==
    LET into == SelectSeq(stmts, LAMBDA st : st.t = t)
    IN  [k \in 1..Len(into) |-> into[k].n]

RECURSIVE SumSeq(_)
SumSeq(q) == IF q = <<>> THEN 0 ELSE Head(q) + SumSeq(Tail(q))

\* C9: when a completed first run of a loader has sent exactly T + 1 rows
\* to a table it writes with batch threshold T, it has issued exactly two
\* INSERT statements for that table, one of T rows and one of 1 row.
C9_ThresholdPlusOneIsTwoInserts ==
    (loader \in {"matches", "lineups", "360", "events"} /\ hist = <<>> /\ pc = "done") =>
        \A t \in Tables :
            (Threshold(t) > 0 /\ SumSeq(InsertSizes(t)) = Threshold(t) + 1) =>
                /\ Len(InsertSizes(t)) = 2
                /\ {InsertSizes(t)[1], InsertSizes(t)[2]} = {Threshold(t), 1}

\* text s holds text p somewhere
Contains(s, p) == \E i \in 1..(Len(s) - Len(p) + 1) : SubSeq(s, i, i + Len(p) - 1) = p

MutatingKeywords == {DANGEROUS_KEYWORDS[k] : k \in 1..11}

\* C10: a request whose text holds a mutating keyword as a whole word, in
\* any letter case and at any position, is answered, on the playground
\* endpoint and in the chat tool alike, by a rejection whose reason names a
\* mutating keyword of the text, and no statement is sent to the database.
C10_RejectionNamesKeyword ==
    (/\ loader \in {"chat", "playground"} /\ pc # "start" /\ pc # "sb_received"
     /\ \E kw \in MutatingKeywords : WordTest(kw, mem.query)) =>
        /\ pc = "done" /\ ~mem.success /\ stmts = <<>>
        /\ \E kw \in MutatingKeywords : WordTest(kw, mem.query) /\ Contains(mem.error, kw)

\* the request's text breaks a rule of the sandbox: it does not start with
\* SELECT or WITH, or holds a keyword of the sandbox's list as a whole word,
\* or has more than one non-empty clause between semicolons
BreaksRule(q) ==
    \/ /\ ~startsWith(toUpperCase(trim(q)), KwSELECT)
       /\ ~startsWith(toUpperCase(trim(q)), KwWITH)
    \/ \E k \in 1..Len(DANGEROUS_KEYWORDS) : WordTest(DANGEROUS_KEYWORDS[k], q)
    \/ SplitCount(q, <<>>) > 1

\* C11: for a request whose text breaks a rule of the sandbox, on the
\* playground endpoint and in the chat tool alike, no statement is ever
\* sent to the database.
C11_RejectedNeverReachesDatabase ==
    (loader \in {"chat", "playground"} /\ pc # "start" /\ BreaksRule(mem.query)) =>
        stmts = <<>>

\* the statements of a request that are not transaction control
TransactionControl == {SqlBegin, SqlSetTimeout, SqlCommit, SqlRollback}
QueryPositions == {i \in 1..Len(stmts) : stmts[i] \notin TransactionControl}

\* C12: on both entry points, every query statement sent to the database
\* comes after a BEGIN TRANSACTION READ ONLY and a SET LOCAL
\* statement_timeout of the same request.
C12_AcceptedRunsReadOnlyWithTimeout ==
    (loader \in {"chat", "playground"}) =>
        \A i \in QueryPositions :
            /\ \E b \in 1..(i - 1) : stmts[b] = SqlBegin
            /\ \E t \in 1..(i - 1) : stmts[t] = SqlSetTimeout

\* the nesting depth of position i of text s
ParenDepth(s, i) ==
    Cardinality({k \in 1..(i - 1) : s[k] = "("}) - Cardinality({k \in 1..(i - 1) : s[k] = ")"})

\* text s has the word LIMIT outside every parenthesis
HasOuterLimit(s) ==
    \E i \in 1..Len(s) :
        /\ i + 4 <= Len(s)
        /\ toUpperCase(SubSeq(s, i, i + 4)) = KwLIMIT
        /\ (i = 1 \/ ~IsWordChar(s[i - 1]))
        /\ (i + 4 = Len(s) \/ ~IsWordChar(s[i + 5]))
        /\ ParenDepth(s, i) = 0

\* C13: on both entry points, every query statement sent to the database
\* has a row limit at its outermost level, its own or the appended one.
C13_AcceptedRunsWithRowLimit ==
    (loader \in {"chat", "playground"}) =>
        \A i \in QueryPositions : HasOuterLimit(stmts[i])

\* the seconds between the start and the end of the stints, full time
\* (90:00) being the end of a stint without one
RECURSIVE StintSeconds(_)
StintSeconds(positions) ==
    IF positions = <<>> THEN 0
    ELSE LET st == positions[1]
         IN  (IF st.to = NoTime THEN 5400 ELSE st.to[1] * 60 + st.to[2])
             - (st.from[1] * 60 + st.from[2]) + StintSeconds(Tail(positions))

HalfAndRest == <<[from |-> <<0, 0>>, to |-> <<45, 0>>], [from |-> <<45, 0>>, to |-> NoTime]>>

\* C14 as stated: the result, in hundredths of a minute, is exactly the sum
\* of the stint durations (result / 100 = seconds / 60).
C14_MinutesPlayedIsExactSum ==
    (loader = "minutes" /\ pc = "done") => 6 * mem.result = 10 * StintSeconds(files)

\* C14 (amended): calculateMinutesPlayed returns the sum of the stint
\* durations in minutes rounded to two decimals (the nearest hundredth, a
\* half rounding up), full time being the end of a stint without an end;
\* for [00:00-45:00], [45:00-no end] it returns 90.
C14_MinutesPlayedIsRoundedSum ==
    (loader = "minutes" /\ pc = "done") =>
        /\ 6 * mem.result - 10 * StintSeconds(files) \in -2..3
        /\ files = HalfAndRest => mem.result = 9000

\* the function has been applied to [00:00-45:00], [45:00-no end]
C14_Witness_HalfAndRest ==
    loader = "minutes" /\ pc = "done" /\ files = HalfAndRest /\ mem.result = 9000

\* the career totals of every player
CareerTotals(d) ==
    {[playerId |-> d.tbl["players"][k].playerId, col |-> c, total |-> d.tbl["players"][k][c]] :
        k \in 1..Len(d.tbl["players"]), c \in TotalColumns}

\* C15: whenever the aggregation pass has completed, after whatever earlier
\* run on the same fact tables, every player's career totals are those that
\* one run of the pass gives.
C15_AggregationTwiceAsOnce ==
    (loader = "aggregate" /\ pc = "done") =>
        CareerTotals(db) = CareerTotals(aggregatePlayerStats(Fresh(AgInitDB(files))).db)

\* the pass has completed a second time and a player has a goal, an assist,
\* two yellow cards and two lineup rows of one match
C15_Witness_SecondRun ==
    /\ loader = "aggregate" /\ pc = "done" /\ hist = <<"done">>
    /\ \E k \in 1..Len(db.tbl["players"]) :
          /\ db.tbl["players"][k].total_goals = 1
          /\ db.tbl["players"][k].total_assists = 1
          /\ db.tbl["players"][k].total_yellow_cards = 2
          /\ db.tbl["players"][k].total_matches = 1
          /\ db.tbl["players"][k].total_minutes_played = 18000

LoadOrder == <<"matches", "competitions", "lineups", "360", "events", "aggregation">>

\* C16: the programs the load sequence has run are the first ones of
\* matches, competitions, lineups, 360-tracking, events, aggregation, in
\* that order, each after the one before it exited with code 0; and when the
\* sequence has come to its end, the aggregation pass has run after the
\* events loader.
C16_LoadersInOrderThenAggregation ==
    (loader = "entrypoint" /\ pc # "start") =>
        /\ Len(mem.ran) <= Len(LoadOrder)
        /\ \A i \in 1..Len(mem.ran) :
              /\ mem.ran[i] = LoadOrder[i]
              /\ i < Len(mem.ran) => mem.codes[i] = 0
        /\ (pc = "sq_app" /\ files.INIT_DB) => mem.ran = LoadOrder

\* the key of row r exists in table t of database d
KeyExists(d, t, r) == \E i \in 1..Len(d.tbl[t]) : Conflict(t, r, d.tbl[t][i])

\* stored row e holds other column values than the new row r
Differs(t, r, e) == IF t \in SerialTables THEN e # ([id |-> e.id] @@ r) ELSE e # r

LoaderNames == {"matches", "competitions", "lineups", "360", "events"}

\* a step of a loader keeps every stored row, and an INSERT that carries only
\* rows whose key exists stores nothing and raises no error
KeepsExistingRows ==
    loader \in LoaderNames =>
        /\ \A t \in Tables :
              /\ Len(db'.tbl[t]) >= Len(db.tbl[t])
              /\ SubSeq(db'.tbl[t], 1, Len(db.tbl[t])) = db.tbl[t]
        /\ Len(stmts') = Len(stmts) + 1 =>
              LET st == stmts'[Len(stmts')]
              IN  (st.rows # <<>> /\ \A k \in 1..Len(st.rows) : KeyExists(db, st.t, st.rows[k]))
                      => (pc' # "failed" /\ db'.tbl = db.tbl)

\* C17: in every step of a loader every stored row keeps its place and its
\* column values; and a step whose INSERT carries only rows whose key
\* already exists stores nothing and does not end the loader with an error.
C17_ExistingRowKeptNoError == [][KeepsExistingRows]_vars

\* the last INSERT carried a row whose key was stored with other column
\* values, the stored row is as it was and the loader goes on
C17_Witness_DifferentRecordSameKey ==
    /\ loader \in LoaderNames /\ pc # "failed" /\ stmts # <<>>
    /\ LET st == stmts[Len(stmts)]
       IN  \E k \in 1..Len(st.rows) : \E i \in 1..Len(db.tbl[st.t]) :
              /\ Conflict(st.t, st.rows[k], db.tbl[st.t][i])
              /\ Differs(st.t, st.rows[k], db.tbl[st.t][i])
              /\ \A j \in 1..Len(st.rows) : KeyExists(db, st.t, st.rows[j])

\* C18: a competitions loader that has started while the countries table
\* holds no row (rows are never removed, so the table was empty when it
\* started) has ended with an error: it issued no INSERT and its exit code is 1.
C18_EmptyCountriesAborts ==
    (loader = "competitions" /\ pc # "start" /\ Len(db.tbl["countries"]) = 0) =>
        (pc = "failed" /\ exitCode = 1 /\ stmts = <<>>)

\* the loader was started on a readable competitions.json with no country stored
C18_Witness_AbortedOnEmptyCountries ==
    /\ loader = "competitions" /\ pc = "failed" /\ exitCode = 1 /\ stmts = <<>>
    /\ Len(db.tbl["countries"]) = 0
    /\ ~files[1].corrupt /\ Len(files[1].items) > 0

\* the tables a loader writes
WrittenBy(l) ==
    CASE l = "matches" -> {"countries", "competitions", "seasons", "competition_stages",
                           "teams", "managers", "stadiums", "referees", "matches",
                           "match_managers"}
      [] l = "competitions" -> {"countries", "competitions", "seasons"}
      [] l = "lineups" -> {"players", "countries", "player_lineups", "player_positions",
                           "player_cards"}
      [] l = "360" -> {"three_sixty_frames", "three_sixty_players"}
      [] l = "events" -> {"events", "event_relationships"} \cup SubtypeTables
      [] OTHER -> {}

\* the references of the rows of statement st, among those into the tables
\* of parents, that database d does not resolve
Unresolved(d, st, parents) ==
    {ref \in References(st.t) :
        /\ ref[2] \in parents
        /\ \E k \in 1..Len(st.rows) :
              /\ st.rows[k][ref[1]] # ref[4]
              /\ ~\E e \in Rows(d, ref[2]) : e[ref[3]] = st.rows[k][ref[1]]}

IssuesOnlyResolved(parents) ==
    (loader \in LoaderNames /\ Len(stmts') = Len(stmts) + 1) =>
        Unresolved(db, stmts'[Len(stmts')], parents) = {}

DeclaredThreshold(t) ==
    CASE t = "events" -> EVENT_BATCH_SIZE
      [] t = "event_relationships" -> RELATIONSHIP_BATCH_SIZE
      [] t \in SubtypeTables -> SUBTYPE_BATCH_SIZE

\* C20: every INSERT statement the events loader has issued carries at most
\* the declared threshold of its table (core events, subtype tables, event
\* relationships).
C20_NoInsertAboveThreshold ==
    loader = "events" =>
        \A i \in 1..Len(stmts) : stmts[i].n <= DeclaredThreshold(stmts[i].t)

\* the country names the matches loader looks up in countryNameToDbId
MtLookedUp(fs) ==
    LET ms == Flatten([k \in 1..Len(fs) |-> fs[k].matches])
        cs == Flatten([k \in 1..Len(ms) |-> MtCountriesOf(ms[k])])
    IN  {cs[k].name : k \in 1..Len(cs)}

\* C21: a loader whose files hold a country key that the name-to-id map does
\* not resolve does not run to completion, and no row is stored with a null
\* country key: a completed matches loader resolved every country name it
\* looked up, a completed lineups loader resolved the country of every
\* lineup entry of its files.
C21_UnresolvedKeyAborts ==
    /\ (loader = "matches" /\ pc = "done" /\ hist = <<>>) =>
          \A n \in MtLookedUp(files) : MapHas(CountryMap(db), n)
    /\ (loader = "lineups" /\ pc = "done" /\ hist = <<>>) =>
          \A k \in 1..Len(AllLineupEntries(files)) :
              MapHas(CountryMap(db), AllLineupEntries(files)[k].player.country)
    /\ loader \in {"matches", "lineups"} =>
          \A t \in {"teams", "managers", "stadiums", "referees", "player_lineups"} :
              \A i \in 1..Len(db.tbl[t]) : db.tbl[t][i].countryId # NULL

\* the step issues an INSERT with rows, and the database refuses the
\* statement: a NOT NULL or FOREIGN KEY violation, never a duplicate key
RaisesViolation ==
    /\ Len(stmts') = Len(stmts) + 1
    /\ stmts'[Len(stmts')].rows # <<>>
    /\ ~InsertStmt(db, stmts'[Len(stmts')].t, stmts'[Len(stmts')].rows).ok

StopsOnViolation == RaisesViolation => (pc' = "failed" /\ exitCode' = 1)

\* C22: a constraint violation other than a duplicate key, raised by an
\* INSERT of a loader, stops that loader at once: it processes no further
\* file and it exits with a non-zero code.
C22_ConstraintViolationStopsLoader == [][StopsOnViolation]_vars

\* the events of the source files, and the nested object of a subtype table
SourceEvents ==
    UNION {{files[i].events[k] : k \in 1..Len(files[i].events)} : i \in 1..Len(files)}

HasNestedObject(t, e) == SubtypeKey(t) # "" /\ e[SubtypeKey(t)] # Absent

\* C23 as stated: a subtype row exists only for an event whose type code is
\* that subtype's and whose payload contains that subtype's nested object.
C23_SubtypeRowOnlyWithTypeAndObject ==
    \A t \in SubtypeTables : \A r \in Rows(db, t) :
        \E e \in SourceEvents :
            e.id = r.eventId /\ e.type \in SubtypeTypes(t) /\ HasNestedObject(t, e)

\* C23: a subtype row exists only for an event whose type code is that
\* subtype's and, for every subtype but pressures (which have no nested
\* object), whose payload contains that subtype's nested object; an event
\* whose type code has no subtype table, or whose payload lacks the object,
\* has no subtype row at all.
C23_SubtypeRowOnlyWithTypeAndObjectButPressures ==
    /\ \A t \in SubtypeTables : \A r \in Rows(db, t) :
          \E e \in SourceEvents :
              /\ e.id = r.eventId /\ e.type \in SubtypeTypes(t)
              /\ (t = "pressures" \/ HasNestedObject(t, e))
    /\ \A e \in SourceEvents :
          (\A t \in SubtypeTables :
               e.type \notin SubtypeTypes(t) \/ (t # "pressures" /\ ~HasNestedObject(t, e)))
          => SubtypeTablesOf(db, e.id) = {}

\* the events loader has stored the core rows of a Starting XI event, of a
\* pass without a pass object and of a shot-coded event that has only a
\* carry object, none of them with a subtype row, and a pressure with one
C23_Witness_CoreRowsOnly ==
    /\ loader = "events" /\ pc = "done"
    /\ \A id \in {"e5", "e8", "e9"} :
          (\E e \in Rows(db, "events") : e.id = id) /\ SubtypeTablesOf(db, id) = {}
    /\ SubtypeTablesOf(db, "e3") = {"pressures"}
    /\ SubtypeTablesOf(db, "e1") = {"passes"}

\* the rows of table t of player p, and the events of player p that have a
\* row in subtype table t satisfying test
FactRows(d, t, p) == {i \in 1..Len(d.tbl[t]) : d.tbl[t][i].playerId = p}

RECURSIVE MinutesOf(_, _)
MinutesOf(d, rows) ==
    IF rows = {} THEN 0
    ELSE LET i == CHOOSE i \in rows : TRUE
         IN  d.tbl["player_lineups"][i].minutesPlayed + MinutesOf(d, rows \ {i})

\* the aggregate of column col for player p over the fact tables of d, 0
\* when no row matches
Aggregate(d, p, col) ==
    CASE col = "total_matches" ->
            Cardinality({d.tbl["player_lineups"][i].matchId : i \in FactRows(d, "player_lineups", p)})
      [] col = "total_goals" ->
            Cardinality({i \in FactRows(d, "events", p) :
                \E s \in Rows(d, "shots") :
                    s.eventId = d.tbl["events"][i].id /\ s.outcomeId = ShotOutcomeGoal})
      [] col = "total_assists" ->
            Cardinality({i \in FactRows(d, "events", p) :
                \E ps \in Rows(d, "passes") :
                    ps.eventId = d.tbl["events"][i].id /\ ps.goalAssist})
      [] col = "total_yellow_cards" ->
            Cardinality({i \in FactRows(d, "player_cards", p) :
                d.tbl["player_cards"][i].cardType = "Yellow Card"})
      [] col = "total_red_cards" ->
            Cardinality({i \in FactRows(d, "player_cards", p) :
                d.tbl["player_cards"][i].cardType \in {"Red Card", "Second Yellow"}})
      [] col = "total_minutes_played" ->
            MinutesOf(d, FactRows(d, "player_lineups", p))

\* C24: when the aggregation pass has completed, every career-total column
\* of every player row equals the aggregate over the fact tables as they
\* are, which is 0 for a player without matching rows.
C24_TotalsEqualAggregates ==
    (loader = "aggregate" /\ pc = "done") =>
        \A k \in 1..Len(db.tbl["players"]) : \A c \in TotalColumns :
            db.tbl["players"][k][c] = Aggregate(db, db.tbl["players"][k].playerId, c)

\* the pass has completed with a player that has no lineup, event or card
\* row and all totals 0, and a player with two lineup rows of one match
C24_Witness_PlayerWithoutRows ==
    /\ loader = "aggregate" /\ pc = "done"
    /\ \E k \in 1..Len(db.tbl["players"]) :
          LET p == db.tbl["players"][k]
          IN  /\ \A t \in {"player_lineups", "events", "player_cards"} : FactRows(db, t, p.playerId) = {}
              /\ \A c \in TotalColumns : p[c] = 0
    /\ \E k \in 1..Len(db.tbl["players"]) :
          LET p == db.tbl["players"][k]
          IN  /\ Cardinality(FactRows(db, "player_lineups", p.playerId)) = 2
              /\ p.total_matches = 1 /\ p.total_goals = 1

\* the records of competitions.json
CompetitionsJson == IF loader = "competitions" /\ ~files[1].corrupt THEN files[1].items ELSE <<>>

\* C25: when the competitions loader has completed on the database the
\* matches loader left behind, the backup column of every competitions row
\* whose competition is in competitions.json is a complete original record
\* of that competition in the file.
C25_BackupIsOriginalRecord ==
    (loader = "competitions" /\ pc = "done") =>
        \A r \in Rows(db, "competitions") :
            (\E k \in 1..Len(CompetitionsJson) : CompetitionsJson[k].competition_id = r.competitionId)
            => \E k \in 1..Len(CompetitionsJson) :
                  /\ CompetitionsJson[k].competition_id = r.competitionId
                  /\ r.rawJson = CompetitionsJson[k]

\* C26: when the execution of an accepted statement has failed and the
\* caller has its result, the result is the structured failure, the
\* transaction that executeSQL opened for the statement is no longer open,
\* and the serving process is running.
C26_FailureCaughtAndRolledBack ==
    loader = "pool" =>
        \A r \in Requests :
            (pc[r] = "done" /\ mem.failed[r]) =>
                /\ mem.reply[r] = "failure"
                /\ \A c \in Connections : ~(db[c].state \in {"tx", "aborted"} /\ db[c].owner = r)
                /\ exitCode = NoExit

\* C29: the statements of one call of executeSQL are all executed on one
\* connection, and no statement is executed inside a transaction that the
\* BEGIN of another request opened.
C29_OneConnectionPerCall ==
    loader = "pool" =>
        /\ \A i, j \in 1..Len(stmts) : stmts[i].req = stmts[j].req => stmts[i].conn = stmts[j].conn
        /\ \A i \in 1..Len(stmts) : stmts[i].inside \in {0, stmts[i].req}

\* the points of a flat coordinate list, and twice the area that the
\* shoelace formula gives for the polygon with vertices pts
PointsOf(coords) == [k \in 1..(Len(coords) \div 2) |-> <<coords[2 * k - 1], coords[2 * k]>>]

RECURSIVE Cross(_, _)
Cross(pts, k) ==
    IF k > Len(pts) THEN 0
    ELSE LET q == pts[IF k = Len(pts) THEN 1 ELSE k + 1]
         IN  pts[k][1] * q[2] - q[1] * pts[k][2] + Cross(pts, k + 1)

TwiceArea(pts) == IF Cross(pts, 1) < 0 THEN 0 - Cross(pts, 1) ELSE Cross(pts, 1)

\* C27 as stated: null under six values; from three points on, the area of
\* the polygon whose vertices are the given points (results are held as
\* twice the area).
C27_AreaOfGivenPoints ==
    (loader = "area" /\ pc = "done") =>
        IF Len(files) < 6 THEN mem.result = NULL
        ELSE mem.result = TwiceArea(PointsOf(files))

\* C27: null under six values; from three points on, the area of the
\* polygon whose vertices are the given points without the last one, which
\* is taken to close the ring; so for a list whose last point repeats the
\* first, the area of the polygon of the given points.
C27_AreaOfClosedRing ==
    (loader = "area" /\ pc = "done") =>
        LET pts == PointsOf(files)
        IN  IF Len(files) < 6 THEN mem.result = NULL
            ELSE /\ mem.result = TwiceArea(SubSeq(pts, 1, Len(pts) - 1))
                 /\ pts[Len(pts)] = pts[1] => mem.result = TwiceArea(pts)

\* the function was applied to the closed ring of a triangle of area 6
C27_Witness_ClosedTriangle ==
    /\ loader = "area" /\ pc = "done"
    /\ files = <<0, 0, 4, 0, 4, 3, 0, 0>>
    /\ mem.result = 12

\* the player entry of a source frame that row r was made from
EntryOf(frame, r) ==
    \E k \in 1..Len(frame.freeze_frame) :
        LET player == frame.freeze_frame[k]
        IN  /\ player.teammate = r.teammate /\ player.actor = r.actor /\ player.keeper = r.keeper
            /\ player.location[1] = r.locationX /\ player.location[2] = r.locationY

\* C28: every frame-player row has the id of a stored frame, and the source
\* record of that frame holds the player entry the row was made from.
C28_PlayerRowsPointToTheirFrame ==
    loader = "360" =>
        \A r \in Rows(db, "three_sixty_players") :
            \E f \in Rows(db, "three_sixty_frames") : f.id = r.frameId /\ EntryOf(f.rawJson, r)

\* the text a caller was returned is not older than the time to live
WithinTtl(ret) == ret.began # NULL => ret.called - ret.began <= CACHE_TTL_MS

\* the fetch of the text a caller was returned did not begin before the
\* last clearSchemaCache that preceded the return
AfterClear(ret) == (ret.began # NULL /\ ret.cleared # NULL) => ret.began >= ret.cleared

\* C30: getSchemaContext never returns text whose fetch began more than
\* CACHE_TTL_MS before the call, nor text whose fetch began before the most
\* recent clearSchemaCache.
C30_NeverReturnsStaleText ==
    loader = "cache" => \A c \in Callers : WithinTtl(stmts[c]) /\ AfterClear(stmts[c])
====
